---------------------------- MODULE Spec2Model ----------------------------
(***************************************************************************)
(* A model of the streaming trace codec of cstockton/go-trace: the LEB128  *)
(* codec, the header codec, the event decoder (Decoder) and the event      *)
(* encoder (Encoder) of package encoding, with the event types, the        *)
(* schema registry and the trace state (Trace) of package event.           *)
(*                                                                         *)
(* Unsigned 64-bit integers are kept at their width: a value is four       *)
(* 16-bit limbs, least significant first, so that shifts truncate exactly  *)
(* as Go's uint64 does.  A byte is an integer in 0..255 and a stream is a  *)
(* sequence of bytes.                                                      *)
(***************************************************************************)
EXTENDS Integers, Sequences, FiniteSets, TLC

VARIABLES
    leb,      \* the LEB128 round-trip harness: value, bytes written, result
    dec,      \* the Decoder: state (Reader, ver, off, argoff) and err
    evt,      \* the caller's *event.Event after the last Decode
    ret,      \* what the last Decoder call returned
    session,  \* history: the source given to NewDecoder or Reset, the calls
              \* made and the events decoded without error since then
    enc,      \* the Encoder: w (sink id, off), err, encode
    sinks,    \* the bytes each io.Writer has received
    sent,     \* the events Emit accepted, per io.Writer, in call order
    eret,     \* what the last Encoder call returned
    calls,    \* the number of API calls made so far (names created errors)
    tr,       \* the event.Trace: Version, Strings, Stacks, Count
    tlog,     \* history of the Trace: what its last call returned, the
              \* calls that returned nil, the String events visited
    prev,     \* history: the header version of the session the last Reset
              \* ended (0 when none was parsed)
    old,      \* the Decoder of the first generation of the package, which
              \* normalizes the events of revision 1, and its last call
    thr,      \* two goroutines making the first call on one Decoder: the
              \* position of each in Version and init, and its locals
    wire      \* the harness of one function: its input and what it returned
              \* (encodeEvent: the event and the bytes written)

others == <<prev, old, thr, wire>>

vars ==
    <<leb, dec, evt, ret, session, enc, sinks, sent, eret, calls, tr, tlog,
      others>>

---------------------------------------------------------------------------
(* uint64 arithmetic on 16-bit limbs *)

Limb == 256 * 256

U64Zero == <<0, 0, 0, 0>>

\* uint64(n) for an int that fits 31 bits
U64FromInt(n) == <<n % Limb, (n \div Limb) % Limb, 0, 0>>

\* whether a uint64 fits a 31-bit int, and its value then
U64IsSmall(v) == v[3] = 0 /\ v[4] = 0 /\ v[2] < 32768

U64ToInt(v) == v[1] + v[2] * Limb

\* a < b on uint64
U64Less(a, b) ==
    \E i \in 1..4 : a[i] < b[i] /\ \A j \in (i+1)..4 : a[j] = b[j]

\* v >> 7
U64Shr7(v) ==
    [i \in 1..4 |->
        (v[i] \div 128) + (IF i < 4 THEN (v[i+1] % 128) * 512 ELSE 0)]

\* byte(v)
U64LowByte(v) == v[1] % 256

RECURSIVE Pow2(_)
Pow2(k) == IF k = 0 THEN 1 ELSE 2 * Pow2(k - 1)

\* uint64(b) << y for a 7-bit b and 0 <= y < 64; bits beyond 64 are lost
U64Shl(b, y) ==
    LET q     == y \div 16
        chunk == b * Pow2(y % 16)
    IN  [i \in 1..4 |->
            IF i = q + 1 THEN chunk % Limb
            ELSE IF i = q + 2 THEN chunk \div Limb
            ELSE 0]

RECURSIVE BitOr(_, _)
BitOr(a, b) ==
    IF a = 0 THEN b
    ELSE IF b = 0 THEN a
    ELSE (IF a % 2 = 1 \/ b % 2 = 1 THEN 1 ELSE 0)
         + 2 * BitOr(a \div 2, b \div 2)

\* a | b on uint64
U64Or(a, b) == [i \in 1..4 |-> BitOr(a[i], b[i])]

---------------------------------------------------------------------------
(* LEB128 codec *)

traceBytesPerNumber == 10

\* encodeUleb with the loop test v > 0x80 in place of v >= 0x80
RECURSIVE encodeUlebGt(_)
encodeUlebGt(v) ==
    IF U64Less(U64FromInt(128), v)
    THEN <<128 + (U64LowByte(v) % 128)>> \o encodeUlebGt(U64Shr7(v))
    ELSE <<U64LowByte(v)>>

\* encodeUleb writing to a bytes.Buffer: the bytes written for v
RECURSIVE encodeUleb(_)
encodeUleb(v) ==
    IF U64Less(U64FromInt(127), v)
    THEN <<128 + (U64LowByte(v) % 128)>> \o encodeUleb(U64Shr7(v))
    ELSE <<U64LowByte(v)>>

\* decodeUleb reading from the byte sequence bs: the value, the error kind,
\* the bytes consumed (n) and the ReadByte calls made (reads, which counts
\* the failing ReadByte too)
RECURSIVE decodeUlebLoop(_, _, _, _)
decodeUlebLoop(bs, i, y, v) ==
    IF i >= traceBytesPerNumber
    THEN [v |-> U64Zero, err |-> "UlebOverflow", n |-> i, reads |-> i]
    ELSE IF i + 1 > Len(bs)
    THEN [v |-> U64Zero, err |-> "EOF", n |-> i, reads |-> i + 1]
    ELSE LET byt == bs[i + 1]
             v2  == U64Or(v, U64Shl(byt % 128, y))
         IN  IF byt < 128
             THEN [v |-> v2, err |-> "nil", n |-> i + 1, reads |-> i + 1]
             ELSE decodeUlebLoop(bs, i + 1, y + 7, v2)

decodeUleb(bs) == decodeUlebLoop(bs, 0, 0, U64Zero)

---------------------------------------------------------------------------
(* package event: versions, event types and the schema registry *)

Version1 == 1
Version2 == 2
Version3 == 3
Version4 == 4
Version5 == 5
Latest == Version5

EvNone == 0
EvStack == 3
EvString == 37
EvCount == 45

\* Type.Valid
TypeValid(t) == EvNone < t /\ t < EvCount

\* schemas[i].Since for the 49 entries of the schemas table
schemasSince ==
    [i \in 0..48 |->
        IF i = 0 THEN 0
        ELSE IF i <= 36 THEN Version1
        ELSE IF i <= 40 THEN Version2
        ELSE IF i <= 42 THEN Version3
        ELSE IF i <= 44 THEN Version4
        ELSE Version5]

\* Type.Since
TypeSince(t) == schemasSince[t % EvCount]

\* schemas[i].Args for the 49 entries of the schemas table
schemasArgs ==
    [i \in 0..48 |->
        CASE i = 0 -> <<>>
          [] i = 1 -> <<"ProcessorID", "Timestamp">>
          [] i = 2 -> <<"Frequency">>
          [] i = 3 -> <<"StackID", "StackSize">>
          [] i = 4 -> <<"Timestamp", "Gomaxprocs", "StackID">>
          [] i = 5 -> <<"Timestamp", "ThreadID">>
          [] i = 7 -> <<"Timestamp", "SequenceGC", "StackID">>
          [] i = 9 -> <<"Timestamp", "Kind">>
          [] i \in {6, 8, 10, 12, 15, 30, 36, 44} -> <<"Timestamp">>
          [] i \in {11, 16, 17, 18, 19, 20, 22, 23, 24, 25, 26, 27, 28,
                    42, 43} -> <<"Timestamp", "StackID">>
          [] i = 13 -> <<"Timestamp", "NewGoroutineID", "NewStackID",
                         "StackID">>
          [] i = 14 -> <<"Timestamp", "GoroutineID", "Sequence">>
          [] i = 21 -> <<"Timestamp", "GoroutineID", "Sequence", "StackID">>
          [] i = 29 -> <<"Timestamp", "GoroutineID", "Sequence",
                         "RealTimestamp">>
          [] i \in {31, 32, 38} -> <<"Timestamp", "GoroutineID">>
          [] i = 33 -> <<"Timestamp", "HeapAlloc">>
          [] i = 34 -> <<"Timestamp", "NextGC">>
          [] i = 35 -> <<"GoroutineID">>
          [] i = 37 -> <<"StringID">>
          [] i = 39 -> <<"Timestamp", "GoroutineID", "StackID">>
          [] i = 40 -> <<"Timestamp", "GoroutineID", "RealTimestamp">>
          [] i = 41 -> <<"Timestamp", "GoroutineID", "Sequence",
                         "LabelStringID">>
          [] i = 45 -> <<"Timestamp", "TaskID", "TaskParentID", "StackID",
                         "NameID">>
          [] i = 46 -> <<"Timestamp", "TaskID", "StackID">>
          [] i = 47 -> <<"Timestamp", "TaskID", "TaskMode", "StackID",
                         "NameID">>
          [] i = 48 -> <<"Timestamp", "TaskID", "KeyID", "StackID",
                         "ValueID">>]

\* Type.Args
TypeArgs(t) == schemasArgs[t % EvCount]

\* new(event.Event), and the nil *event.Event
ZeroEvent == [Type |-> EvNone, Args |-> <<>>, Data |-> <<>>, Off |-> 0]
NilEvent == [Type |-> -1, Args |-> <<>>, Data |-> <<>>, Off |-> 0]

---------------------------------------------------------------------------
(* errors *)

(* An error is its kind and an identity.  io.EOF, io.ErrUnexpectedEOF and  *)
(* io.ErrShortWrite are package-level values (identity 0); an error made   *)
(* by errors.New or fmt.Errorf is a new value each time, named here by the *)
(* number of the API call that made it.  Kinds of the decoder:             *)
(*   NilReader     `nil io.Reader given to Reset`                          *)
(*   NilEvent      `nil event.Event given to Decode`                       *)
(*   HeaderPrefix  `trace header prefix was malformed`                     *)
(*   HeaderVersion `trace header version was malformed`                    *)
(*   HeaderSuffix  `trace header suffix was malformed`                     *)
(*   InvalidType   `invalid event type 0x..`                               *)
(*   Unsupported   `version .. does not support event ..`                  *)
(*   SizeLimit     `size .. exceeds allocation limit(..)`                  *)
(*   ArgLimit      `argument count .. exceeds allocation limit(..)`        *)
(*   UlebOverflow  `uleb128 value overflowed`                              *)
(* and of the encoder:                                                     *)
(*   HeaderInvalid `trace header version was invalid`                      *)
(*   EncodeInvalidType, EncodeNoArgs, EncodeFewArgs, each wrapped by Emit  *)
(*   as `.. at 0x<offset>`.                                                *)

Nil == [kind |-> "nil", id |-> 0]

SentinelKinds == {"nil", "EOF", "UnexpectedEOF", "ErrShortWrite"}

MkErr(kind, id) ==
    [kind |-> kind, id |-> IF kind \in SentinelKinds THEN 0 ELSE id]

---------------------------------------------------------------------------
(* the decoder's state: a bufio.Reader over the source, modelled by the    *)
(* bytes not yet read, with the version, the offset and the arg offset     *)

maxMakeSize == 1000000

\* newState: a new bufio.Reader over r; buf names the bufio.Reader object
\* (0 for a nil one, 1 for the one newState makes, 2 for one Reset makes)
newState(r) == [Reader |-> r, buf |-> 1, ver |-> 0, off |-> 0, argoff |-> 0]

\* state.Reset that keeps the arg offset
stateResetKeepArgoff(s, r) ==
    [Reader |-> r, buf |-> IF s.buf = 0 THEN 2 ELSE s.buf,
     ver |-> 0, off |-> 0, argoff |-> s.argoff]

\* state.Reset: the bufio.Reader the state has is reset to read r and kept,
\* every other field becomes zero
stateReset(s, r) ==
    [Reader |-> r, buf |-> IF s.buf = 0 THEN 2 ELSE s.buf,
     ver |-> 0, off |-> 0, argoff |-> 0]

Min(a, b) == IF a < b THEN a ELSE b

Drop(bs, n) == SubSeq(bs, n + 1, Len(bs))

\* the state after one decodeUleb whose outcome is u: state.ReadByte counts
\* every call in off, the failing one included
AfterUleb(s, u) ==
    [s EXCEPT !.Reader = Drop(s.Reader, u.n), !.off = s.off + u.reads]

\* "go 1.N trace\x00\x00\x00\x00" with the version byte c
HeaderWith(c) ==
    <<103, 111, 32, 49, 46, c, 32, 116, 114, 97, 99, 101, 0, 0, 0, 0>>

headerLut == <<116, 114, 97, 99, 101, 0, 0, 0, 0>>

\* decodeHeader: reads 16 bytes and sets s.ver, or fails
decodeHeader(s) ==
    LET n  == Min(16, Len(s.Reader))
        b  == SubSeq(s.Reader, 1, n)
        s1 == [s EXCEPT !.Reader = Drop(s.Reader, n), !.off = s.off + n]
    IN  IF n < 16 THEN [s |-> s1, err |-> "UnexpectedEOF"]
        ELSE IF b[1] # 103 \/ b[2] # 111 \/ b[3] # 32
        THEN [s |-> s1, err |-> "HeaderPrefix"]
        ELSE IF b[4] # 49 \/ b[5] # 46 \/ b[7] # 32
        THEN [s |-> s1, err |-> "HeaderVersion"]
        ELSE IF b[6] \notin {53, 55, 56, 57}
        THEN [s |-> s1, err |-> "HeaderVersion"]
        ELSE IF SubSeq(b, 8, 16) # headerLut
        THEN [s |-> [s1 EXCEPT !.ver = 0], err |-> "HeaderSuffix"]
        ELSE [s |-> [s1 EXCEPT !.ver =
                        CASE b[6] = 53 -> Version1
                          [] b[6] = 55 -> Version2
                          [] b[6] = 56 -> Version3
                          [] b[6] = 57 -> Version4],
              err |-> "nil"]

\* decodeEventInline: exactly n uleb values into evt.Args
RECURSIVE decodeEventInlineLoop(_, _, _, _)
decodeEventInlineLoop(s, n, e, i) ==
    IF i >= n THEN [s |-> s, evt |-> e, err |-> "nil"]
    ELSE LET u  == decodeUleb(s.Reader)
             s1 == AfterUleb(s, u)
         IN  IF u.err # "nil"
             THEN [s |-> s1, evt |-> e,
                   err |-> IF u.err = "EOF" THEN "UnexpectedEOF" ELSE u.err]
             ELSE decodeEventInlineLoop(
                      s1, n, [e EXCEPT !.Args[i + 1] = u.v], i + 1)

decodeEventInline(s, n, e) ==
    IF maxMakeSize < n THEN [s |-> s, evt |-> e, err |-> "SizeLimit"]
    ELSE decodeEventInlineLoop(
             s, n,
             [e EXCEPT !.Args =
                 IF n > Len(e.Args) THEN [i \in 1..n |-> U64Zero]
                 ELSE SubSeq(e.Args, 1, n)],
             0)

\* decodeEventString with the size test maxMakeSize <= size
decodeEventStringLe(s, e) ==
    LET u  == decodeUleb(s.Reader)
        s1 == AfterUleb(s, u)
    IN  IF u.err # "nil"
        THEN [s |-> s1, evt |-> e,
              err |-> IF u.err = "EOF" THEN "UnexpectedEOF" ELSE u.err]
        ELSE IF ~U64Less(u.v, U64FromInt(maxMakeSize))
        THEN [s |-> s1, evt |-> e, err |-> "SizeLimit"]
        ELSE LET size == U64ToInt(u.v)
                 k    == Min(size, Len(s1.Reader))
                 data == [i \in 1..size |->
                             IF i <= k THEN s1.Reader[i] ELSE 0]
                 s2   == [s1 EXCEPT !.Reader = Drop(s1.Reader, k),
                                    !.off = s1.off + k]
             IN  [s |-> s2, evt |-> [e EXCEPT !.Data = data],
                  err |-> IF k = size THEN "nil"
                          ELSE IF k = 0 THEN "EOF"
                          ELSE "UnexpectedEOF"]

\* decodeEventString: a uleb size, then size raw bytes into evt.Data
decodeEventString(s, e) ==
    LET u  == decodeUleb(s.Reader)
        s1 == AfterUleb(s, u)
    IN  IF u.err # "nil"
        THEN [s |-> s1, evt |-> e,
              err |-> IF u.err = "EOF" THEN "UnexpectedEOF" ELSE u.err]
        ELSE IF U64Less(U64FromInt(maxMakeSize), u.v)
        THEN [s |-> s1, evt |-> e, err |-> "SizeLimit"]
        ELSE LET size == U64ToInt(u.v)
                 k    == Min(size, Len(s1.Reader))
                 data == [i \in 1..size |->
                             IF i <= k THEN s1.Reader[i] ELSE 0]
                 s2   == [s1 EXCEPT !.Reader = Drop(s1.Reader, k),
                                    !.off = s1.off + k]
             IN  [s |-> s2, evt |-> [e EXCEPT !.Data = data],
                  err |-> IF k = size THEN "nil"
                          ELSE IF k = 0 THEN "EOF"
                          ELSE "UnexpectedEOF"]

\* decodeEventArgs: a uleb byte length, then uleb values until the offset
\* has advanced that far
RECURSIVE decodeEventArgsLoop(_, _, _)
decodeEventArgsLoop(s, e, until) ==
    IF ~(s.off < until) THEN [s |-> s, evt |-> e, err |-> "nil"]
    ELSE LET u  == decodeUleb(s.Reader)
             s1 == AfterUleb(s, u)
         IN  IF u.err # "nil" THEN [s |-> s1, evt |-> e, err |-> u.err]
             ELSE decodeEventArgsLoop(
                      s1, [e EXCEPT !.Args = Append(e.Args, u.v)], until)

decodeEventArgs(s, e) ==
    LET u  == decodeUleb(s.Reader)
        s1 == AfterUleb(s, u)
    IN  IF u.err # "nil" THEN [s |-> s1, evt |-> e, err |-> u.err]
        ELSE IF U64Less(U64FromInt(maxMakeSize), u.v)
        THEN [s |-> s1, evt |-> e, err |-> "ArgLimit"]
        ELSE decodeEventArgsLoop(
                 s1, [e EXCEPT !.Args = <<>>], s1.off + U64ToInt(u.v))

\* decodeEventData: dispatch on the type and the argument count of the tag
decodeEventData(s, e, args) ==
    IF e.Type = EvString
    THEN LET r == decodeEventInline(s, 1, e)
         IN  IF r.err # "nil" THEN r ELSE decodeEventString(r.s, r.evt)
    ELSE IF args < 4 THEN decodeEventInline(s, args + s.argoff, e)
    ELSE decodeEventArgs(s, e)

\* decodeEventType: the tag byte gives evt.Type and the argument count
decodeEventType(s, e) ==
    IF Len(s.Reader) = 0
    THEN [s |-> [s EXCEPT !.off = s.off + 1], evt |-> e, args |-> 0,
          err |-> "EOF"]
    ELSE LET byt == s.Reader[1]
             s1  == [s EXCEPT !.Reader = Drop(s.Reader, 1),
                              !.off = s.off + 1]
             e1  == [e EXCEPT !.Type = byt % 64]
         IN  IF ~TypeValid(e1.Type)
             THEN [s |-> s1, evt |-> e1, args |-> 0, err |-> "InvalidType"]
             ELSE [s |-> s1, evt |-> e1, args |-> (byt \div 64) + 1,
                   err |-> "nil"]

\* decodeEvent with the version check Since() >= s.ver
decodeEventGe(s, e) ==
    LET t == decodeEventType(s, e)
    IN  IF t.err # "nil" THEN [s |-> t.s, evt |-> t.evt, err |-> t.err]
        ELSE IF TypeSince(t.evt.Type) >= t.s.ver
        THEN [s |-> t.s, evt |-> t.evt, err |-> "Unsupported"]
        ELSE decodeEventData(
                 t.s, [t.evt EXCEPT !.Off = t.s.off - 1], t.args)

\* decodeEvent that sets the offset without accommodating the tag byte
decodeEventOffAfterTag(s, e) ==
    LET t == decodeEventType(s, e)
    IN  IF t.err # "nil" THEN [s |-> t.s, evt |-> t.evt, err |-> t.err]
        ELSE IF TypeSince(t.evt.Type) > t.s.ver
        THEN [s |-> t.s, evt |-> t.evt, err |-> "Unsupported"]
        ELSE decodeEventData(
                 t.s, [t.evt EXCEPT !.Off = t.s.off], t.args)

\* decodeEvent: the tag byte, the version check, then the event data
decodeEvent(s, e) ==
    LET t == decodeEventType(s, e)
    IN  IF t.err # "nil" THEN [s |-> t.s, evt |-> t.evt, err |-> t.err]
        ELSE IF TypeSince(t.evt.Type) > t.s.ver
        THEN [s |-> t.s, evt |-> t.evt, err |-> "Unsupported"]
        ELSE decodeEventData(
                 t.s, [t.evt EXCEPT !.Off = t.s.off - 1], t.args)

---------------------------------------------------------------------------
(* the Decoder: a record of its state and its err *)

NewDecoder(r) == [state |-> newState(r), err |-> Nil]

\* Decoder.halt
DecoderHalt(d, err) == [d EXCEPT !.err = err]

\* Decoder.init: decode the header, halt on failure, set argoff for Version1
DecoderInit(d, id) ==
    LET h == decodeHeader(d.state)
    IN  IF h.err # "nil"
        THEN DecoderHalt([d EXCEPT !.state = h.s], MkErr(h.err, id))
        ELSE [d EXCEPT !.state =
                 IF h.s.ver = Version1 THEN [h.s EXCEPT !.argoff = 1]
                 ELSE h.s]

\* Decoder.Err: io.EOF is reported as nil
DecoderErr(d) == IF d.err = MkErr("EOF", 0) THEN Nil ELSE d.err

\* Decoder.Reset with a state.Reset that keeps the version
DecoderResetKeepVer(d, r) ==
    [d EXCEPT !.err = Nil,
              !.state = [stateReset(d.state, r) EXCEPT !.ver = d.state.ver]]

\* Decoder.Reset with a non-nil reader r, and with a nil reader
DecoderReset(d, r) ==
    [d EXCEPT !.err = Nil, !.state = stateReset(d.state, r)]

DecoderResetNil(d, id) == [d EXCEPT !.err = MkErr("NilReader", id)]

\* Decoder.Version: the decoder after the call, the version and the error
DecoderVersion(d, id) ==
    LET d1 == IF d.state.ver = 0 THEN DecoderInit(d, id) ELSE d
    IN  IF d1.err # Nil THEN [d |-> d1, ver |-> 0, err |-> d1.err]
        ELSE [d |-> d1, ver |-> d1.state.ver, err |-> d1.err]

\* Decoder.More without the test of d.err
DecoderMoreNoGuard(d) ==
    IF Len(d.state.Reader) = 0
    THEN [d |-> DecoderHalt(d, MkErr("EOF", 0)), more |-> FALSE]
    ELSE [d |-> d, more |-> TRUE]

\* Decoder.More: buffered bytes, or one byte can be peeked
DecoderMore(d) ==
    IF d.err # Nil THEN [d |-> d, more |-> FALSE]
    ELSE IF Len(d.state.Reader) = 0
    THEN [d |-> DecoderHalt(d, MkErr("EOF", 0)), more |-> FALSE]
    ELSE [d |-> d, more |-> TRUE]

\* Decoder.Decode into the event e (NilEvent for a nil pointer)
DecoderDecode(d, e, id) ==
    IF e = NilEvent
    THEN LET d1 == [d EXCEPT !.err = MkErr("NilEvent", id)]
         IN  [d |-> d1, evt |-> e, err |-> d1.err]
    ELSE LET d1 == IF d.state.ver = 0 THEN DecoderInit(d, id) ELSE d
         IN  IF d1.err # Nil THEN [d |-> d1, evt |-> e, err |-> d1.err]
             ELSE LET r == decodeEvent(d1.state, e)
                  IN  IF r.err # "nil"
                      THEN LET d2 == DecoderHalt([d1 EXCEPT !.state = r.s],
                                                 MkErr(r.err, id))
                           IN  [d |-> d2, evt |-> r.evt, err |-> d2.err]
                      ELSE [d |-> [d1 EXCEPT !.state = r.s], evt |-> r.evt,
                            err |-> Nil]

---------------------------------------------------------------------------
(* the encoder: each encode function gives the bytes it writes to a writer *)
(* that accepts them, or the kind of the error it returns                  *)

\* encodeHeader
encodeHeader(v) ==
    IF v = Version1 THEN [bytes |-> HeaderWith(53), err |-> "nil"]
    ELSE IF v = Version2 THEN [bytes |-> HeaderWith(55), err |-> "nil"]
    ELSE IF v = Version3 THEN [bytes |-> HeaderWith(56), err |-> "nil"]
    ELSE IF v = Version4 THEN [bytes |-> HeaderWith(57), err |-> "nil"]
    ELSE [bytes |-> <<>>, err |-> "HeaderInvalid"]

\* the uleb encodings of args, back to back
RECURSIVE encodeUlebs(_)
encodeUlebs(args) ==
    IF args = <<>> THEN <<>>
    ELSE encodeUleb(Head(args)) \o encodeUlebs(Tail(args))

\* encodeEventInline without the test for an event of no argument
encodeEventInlineNoGuard(e) ==
    [bytes |-> <<(e.Type + 64 * ((Len(e.Args) - 1) % 256)) % 256>>
               \o encodeUlebs(e.Args),
     err |-> "nil"]

\* encodeEventInline
encodeEventInline(e) ==
    IF Len(e.Args) = 0 THEN [bytes |-> <<>>, err |-> "EncodeNoArgs"]
    ELSE [bytes |-> <<(e.Type + 64 * (Len(e.Args) - 1)) % 256>>
                    \o encodeUlebs(e.Args),
          err |-> "nil"]

\* encodeEventArgs that writes the number of arguments as the length
encodeEventArgsCount(e) ==
    IF Len(e.Args) < 4 THEN [bytes |-> <<>>, err |-> "EncodeFewArgs"]
    ELSE LET buf == encodeUlebs(e.Args)
         IN  [bytes |-> <<BitOr(e.Type, 192)>>
                        \o encodeUleb(U64FromInt(Len(e.Args))) \o buf,
              err |-> "nil"]

\* encodeEventArgs
encodeEventArgs(e) ==
    IF Len(e.Args) < 4 THEN [bytes |-> <<>>, err |-> "EncodeFewArgs"]
    ELSE LET buf == encodeUlebs(e.Args)
         IN  [bytes |-> <<BitOr(e.Type, 192)>>
                        \o encodeUleb(U64FromInt(Len(buf))) \o buf,
              err |-> "nil"]

\* encodeEventString
encodeEventString(e) ==
    IF Len(e.Args) = 0 THEN [bytes |-> <<>>, err |-> "EncodeNoArgs"]
    ELSE [bytes |-> <<e.Type>> \o encodeUleb(e.Args[1])
                    \o encodeUleb(U64FromInt(Len(e.Data))) \o e.Data,
          err |-> "nil"]

\* encodeEvent
encodeEvent(e) ==
    IF ~TypeValid(e.Type) THEN [bytes |-> <<>>, err |-> "EncodeInvalidType"]
    ELSE IF e.Type = EvString THEN encodeEventString(e)
    ELSE IF Len(e.Args) < 4 THEN encodeEventInline(e)
    ELSE encodeEventArgs(e)

\* the writer that rejects every write (n = 0 and an error), as the tests'
\* rwLimiter with n: 0; every other writer accepts all bytes
FailSink == 0

\* what reaches the writer w of the bytes an encode function produces: its
\* first write fails on FailSink, before any byte is accepted
WriteTo(w, r) ==
    IF r.err = "nil" /\ w = FailSink
    THEN [bytes |-> <<>>, err |-> "SinkError"]
    ELSE r

\* encodeInit: the header, then the encode function of the latest version
encodeInit(w, v) ==
    LET h == WriteTo(w, encodeHeader(v))
    IN  [encode |-> IF h.err # "nil" THEN "nil" ELSE "encodeEvent",
         bytes |-> h.bytes, err |-> h.err]

NewEncoder(w) == [w |-> [w |-> w, off |-> 0], err |-> Nil, encode |-> "nil"]

\* Encoder.Err
EncoderErr(e) == e.err

\* Encoder.Reset
EncoderReset(e, w) == [e EXCEPT !.err = Nil, !.w.off = 0, !.w.w = w]

\* Encoder.init without the early return on a latched error
EncoderInitNoGuard(e, id) ==
    IF e.encode # "nil"
    THEN [e |-> [e EXCEPT !.err = MkErr("ConcurrentUse", id)],
          bytes |-> <<>>]
    ELSE LET i == encodeInit(e.w.w, Latest)
         IN  [e |-> [e EXCEPT !.encode = i.encode,
                              !.err = MkErr(i.err, id),
                              !.w.off = e.w.off + Len(i.bytes)],
              bytes |-> i.bytes]

\* Encoder.init: the encoder after the call and the bytes written
EncoderInit(e, id) ==
    IF e.err # Nil THEN [e |-> e, bytes |-> <<>>]
    ELSE IF e.encode # "nil"
    THEN [e |-> [e EXCEPT !.err = MkErr("ConcurrentUse", id)],
          bytes |-> <<>>]
    ELSE LET i == encodeInit(e.w.w, Latest)
         IN  [e |-> [e EXCEPT !.encode = i.encode,
                              !.err = MkErr(i.err, id),
                              !.w.off = e.w.off + Len(i.bytes)],
              bytes |-> i.bytes]

\* Encoder.Emit: the encoder after the call, the bytes written to its
\* writer and the error returned
EncoderEmit(e, ev, id) ==
    LET i  == IF e.encode = "nil" THEN EncoderInit(e, id)
              ELSE [e |-> e, bytes |-> <<>>]
        e1 == i.e
    IN  IF e1.err # Nil THEN [e |-> e1, bytes |-> i.bytes, err |-> e1.err]
        ELSE LET r  == WriteTo(e1.w.w, encodeEvent(ev))
                 e2 == [e1 EXCEPT !.w.off = e1.w.off + Len(r.bytes),
                                  !.err = MkErr(r.err, id)]
             IN  [e |-> e2, bytes |-> i.bytes \o r.bytes, err |-> e2.err]

---------------------------------------------------------------------------
(* package event: the Trace, its string and stack dictionaries.  A         *)
(* dictionary is a function from identifiers to values; a Stack is a       *)
(* sequence of Frames; an error of the Trace is one of the kinds           *)
(*   UnknownFrameSize `Version .. has unknown frame size`                  *)
(*   VisitNil         `attempt to validate nil Event`                      *)
(*   VisitInvalidType `event type .. was not valid`                        *)
(*   SchemaArgs       `event type .. only had .. of .. arguments`          *)
(*   ArgCount         `Event .. was given .. of .. expected arguments`     *)
(*   ZeroStringId     `invalid string id 0`                                *)
(*   ZeroStackId      `invalid stack id 0`                                 *)
(*   StackLimit       `stack size .. exceeds limit(..)`                    *)
(*   StackMismatch    `stack size .. does not match arg count(..)`         *)
(*   DuplicateString  `trace string already exists`                        *)
(*   DuplicateStack   `trace stack already exists`                         *)
(*   StackNotFound    `trace stack ID .. could not be found`               *)

maxStackSize == 1000

EmptyMap == [k \in {} |-> 0]

\* Version.Valid
VersionValid(v) == Version1 <= v /\ v <= Version5

\* init of package event, for versions[i].types: the types of the schemas
\* table from typ on, in the order of the table, each appended to the
\* versions from its Since to Version4
RECURSIVE initTypes(_, _)
initTypes(i, typ) ==
    IF typ > 48 THEN <<>>
    ELSE (IF schemasSince[typ] <= i /\ i <= Version4 THEN <<typ>> ELSE <<>>)
         \o initTypes(i, typ + 1)

\* versions[i].types after init
versionsTypes == [i \in 0..5 |-> initTypes(i, 0)]

\* Version.Types: nil (no type) for a version that is not valid
VersionTypes(v) == IF ~VersionValid(v) THEN <<>> ELSE versionsTypes[v]

\* int(x) of a uint64 on a 64-bit build: the same bits, read as signed
IntOfU64(v) == [bits |-> v, neg |-> v[4] >= 32768]

\* Trace.init: choose the stack visitor by the version
TraceInit(t) ==
    IF ~VersionValid(t.Version) THEN [tr |-> t, err |-> "UnknownFrameSize"]
    ELSE [tr |-> [t EXCEPT !.stackVisitFn =
                     IF t.Version > Version1 THEN "visitStackSize4"
                     ELSE "visitStackSize1"],
          err |-> "nil"]

\* NewTrace for a valid version
NewTrace(v) ==
    TraceInit([Version |-> v, Strings |-> EmptyMap, Stacks |-> EmptyMap,
               Count |-> 0, stackVisitFn |-> "nil"]).tr

\* Trace.Reset: the Trace becomes the zero Trace with two new maps
TraceReset(t) ==
    [Version |-> 0, Strings |-> EmptyMap, Stacks |-> EmptyMap, Count |-> 0,
     stackVisitFn |-> "nil"]

\* Trace.validateArgCount; max = -1 is no upper limit
validateArgCount(e, min, max) ==
    IF e = NilEvent THEN "VisitNil"
    ELSE IF Len(e.Args) < min THEN "ArgCount"
    ELSE IF max # -1 /\ Len(e.Args) > max THEN "ArgCount"
    ELSE "nil"

\* Trace.addString that returns nil without storing the string
addStringDrop(t, id, str) == [tr |-> t, err |-> "nil"]

\* Trace.addString
addString(t, id, str) ==
    IF id \in DOMAIN t.Strings THEN [tr |-> t, err |-> "DuplicateString"]
    ELSE [tr |-> [t EXCEPT !.Strings = (id :> str) @@ @], err |-> "nil"]

\* Trace.addStack that replaces a stack already stored
addStackOverwrite(t, id, stk) ==
    [tr |-> [t EXCEPT !.Stacks = (id :> stk) @@ @],
     err |-> IF id \in DOMAIN t.Stacks THEN "DuplicateStack" ELSE "nil"]

\* Trace.addStack
addStack(t, id, stk) ==
    IF id \in DOMAIN t.Stacks THEN [tr |-> t, err |-> "DuplicateStack"]
    ELSE [tr |-> [t EXCEPT !.Stacks = (id :> stk) @@ @], err |-> "nil"]

\* Trace.visitString
visitString(t, e) ==
    IF e.Type # EvString THEN [tr |-> t, err |-> "NotString"]
    ELSE IF validateArgCount(e, 1, 1) # "nil"
    THEN [tr |-> t, err |-> validateArgCount(e, 1, 1)]
    ELSE IF e.Args[1] = U64Zero THEN [tr |-> t, err |-> "ZeroStringId"]
    ELSE addString(t, e.Args[1], e.Data)

\* Trace.visitStackSize1: frames of a pc only
visitStackSize1(t, e) ==
    LET size == U64ToInt(e.Args[2])
        got  == Len(e.Args) - 2
    IN  IF got # size * 1 THEN [tr |-> t, err |-> "StackMismatch"]
        ELSE addStack(t, e.Args[1],
                 [i \in 1..size |->
                     [pc |-> e.Args[2 + (i - 1) * 1 + 1], fn |-> U64Zero,
                      file |-> U64Zero, line |-> IntOfU64(U64Zero)]])

\* Trace.visitStackSize4 that accepts arguments beyond the frames
visitStackSize4AtLeast(t, e) ==
    LET size == U64ToInt(e.Args[2])
        got  == Len(e.Args) - 2
    IN  IF got < size * 4 THEN [tr |-> t, err |-> "StackMismatch"]
        ELSE addStack(t, e.Args[1],
                 [i \in 1..size |->
                     LET pos == 2 + (i - 1) * 4
                     IN  [pc |-> e.Args[pos + 1], fn |-> e.Args[pos + 2],
                          file |-> e.Args[pos + 3],
                          line |-> IntOfU64(e.Args[pos + 4])]])

\* Trace.visitStackSize4: frames of pc, fn, file and line
visitStackSize4(t, e) ==
    LET size == U64ToInt(e.Args[2])
        got  == Len(e.Args) - 2
    IN  IF got # size * 4 THEN [tr |-> t, err |-> "StackMismatch"]
        ELSE addStack(t, e.Args[1],
                 [i \in 1..size |->
                     LET pos == 2 + (i - 1) * 4
                     IN  [pc |-> e.Args[pos + 1], fn |-> e.Args[pos + 2],
                          file |-> e.Args[pos + 3],
                          line |-> IntOfU64(e.Args[pos + 4])]])

\* Trace.visitStack
visitStack(t, e) ==
    IF e.Type # EvStack THEN [tr |-> t, err |-> "NotStack"]
    ELSE IF validateArgCount(e, 2, -1) # "nil"
    THEN [tr |-> t, err |-> validateArgCount(e, 2, -1)]
    ELSE IF e.Args[1] = U64Zero THEN [tr |-> t, err |-> "ZeroStackId"]
    ELSE IF U64Less(U64FromInt(maxStackSize), e.Args[2])
    THEN [tr |-> t, err |-> "StackLimit"]
    ELSE IF t.stackVisitFn = "visitStackSize4" THEN visitStackSize4(t, e)
    ELSE visitStackSize1(t, e)

\* Trace.Visit without the test of the number of arguments against the
\* schema
TraceVisitNoSchema(t, e, id) ==
    LET i  == IF t.Count = 0 THEN TraceInit(t) ELSE [tr |-> t, err |-> "nil"]
        t1 == [i.tr EXCEPT !.Count = @ + 1]
    IN  IF i.err # "nil" THEN [tr |-> i.tr, err |-> MkErr(i.err, id)]
        ELSE IF e = NilEvent THEN [tr |-> t1, err |-> MkErr("VisitNil", id)]
        ELSE IF ~TypeValid(e.Type)
        THEN [tr |-> t1, err |-> MkErr("VisitInvalidType", id)]
        ELSE LET r == IF e.Type = EvString THEN visitString(t1, e)
                      ELSE IF e.Type = EvStack THEN visitStack(t1, e)
                      ELSE [tr |-> t1, err |-> "nil"]
             IN  [tr |-> r.tr, err |-> MkErr(r.err, id)]

\* Trace.Visit of the event e (NilEvent for a nil pointer) by the call
\* numbered id: Count is incremented before the event is looked at; the
\* case of EvFrequency holds a comment only, so that type is not visited
TraceVisit(t, e, id) ==
    LET i  == IF t.Count = 0 THEN TraceInit(t) ELSE [tr |-> t, err |-> "nil"]
        t1 == [i.tr EXCEPT !.Count = @ + 1]
    IN  IF i.err # "nil" THEN [tr |-> i.tr, err |-> MkErr(i.err, id)]
        ELSE IF e = NilEvent THEN [tr |-> t1, err |-> MkErr("VisitNil", id)]
        ELSE IF ~TypeValid(e.Type)
        THEN [tr |-> t1, err |-> MkErr("VisitInvalidType", id)]
        ELSE IF Len(schemasArgs[e.Type]) > Len(e.Args)
        THEN [tr |-> t1, err |-> MkErr("SchemaArgs", id)]
        ELSE LET r == IF e.Type = EvString THEN visitString(t1, e)
                      ELSE IF e.Type = EvStack THEN visitStack(t1, e)
                      ELSE [tr |-> t1, err |-> "nil"]
             IN  [tr |-> r.tr, err |-> MkErr(r.err, id)]

\* Type.Arg: the index (from 0) of the argument name in the schema of t
TypeArg(t, name) ==
    LET a == schemasArgs[t % EvCount]
        S == {i \in 1..Len(a) : a[i] = name}
    IN  IF S = {} THEN [arg |-> 0, found |-> FALSE]
        ELSE [arg |-> (CHOOSE i \in S : \A j \in S : i <= j) - 1,
              found |-> TRUE]

\* Event.Get: e.Args[idx] when idx <= len(e.Args), which indexes past the
\* end (a run-time panic) when idx = len(e.Args)
EventGet(e, name) ==
    LET a == TypeArg(e.Type, name)
    IN  IF a.found /\ a.arg <= Len(e.Args)
        THEN IF a.arg + 1 <= Len(e.Args)
             THEN [v |-> e.Args[a.arg + 1], panic |-> FALSE]
             ELSE [v |-> U64Zero, panic |-> TRUE]
        ELSE [v |-> U64Zero, panic |-> FALSE]

\* Event.Lookup: the loop over the schema of the type from index idx (from
\* 0); it returns at an index above len(e.Args), and reads e.Args[idx] at
\* the index of name, which is past the end (a run-time panic) when
\* idx = len(e.Args)
RECURSIVE EventLookupLoop(_, _, _)
EventLookupLoop(e, name, idx) ==
    LET a == schemasArgs[e.Type % EvCount]
    IN  IF idx >= Len(a) THEN [v |-> U64Zero, found |-> FALSE, panic |-> FALSE]
        ELSE IF idx > Len(e.Args)
        THEN [v |-> U64Zero, found |-> FALSE, panic |-> FALSE]
        ELSE IF a[idx + 1] = name
        THEN IF idx + 1 <= Len(e.Args)
             THEN [v |-> e.Args[idx + 1], found |-> TRUE, panic |-> FALSE]
             ELSE [v |-> U64Zero, found |-> FALSE, panic |-> TRUE]
        ELSE EventLookupLoop(e, name, idx + 1)

EventLookup(e, name) == EventLookupLoop(e, name, 0)

\* Trace.getStack
getStack(t, id, eid) ==
    IF id \in DOMAIN t.Stacks
    THEN [found |-> TRUE, stk |-> t.Stacks[id], err |-> Nil]
    ELSE [found |-> FALSE, stk |-> <<>>, err |-> MkErr("StackNotFound", eid)]

\* Trace.Stack: the stack of the StackID argument of e
TraceStack(t, e, eid) ==
    LET g == EventGet(e, "StackID")
    IN  IF g.panic
        THEN [found |-> FALSE, stk |-> <<>>, err |-> Nil, panic |-> TRUE]
        ELSE [found |-> getStack(t, g.v, eid).found,
              stk |-> getStack(t, g.v, eid).stk,
              err |-> getStack(t, g.v, eid).err, panic |-> FALSE]

---------------------------------------------------------------------------
(* the first generation of the Decoder (events.go 22-585): Decode returns  *)
(* a new event, the state counts the events and keeps the dictionaries,    *)
(* and the events of revision 1 are brought to the latest shape by         *)
(* decodeEventVersion1.  Its event types are 1..42, its versions 1..3; an  *)
(* event is [typ, args, data, off], the reader is [Reader, off].  Kinds of *)
(* its errors: ErrVersion (a package-level value), ConcurrentUse `possible *)
(* unsafe usage from multiple goroutines`, OldInvalid `Event .. was not    *)
(* valid`, FrequencyZero `frequency .. should be >= to 0`, and the kinds   *)
(* of the second generation for the same messages.                         *)

oldEvCount == 43

EvBatch == 1
EvFrequency == 2
EvGCStart == 7
EvGoStart == 14
EvGoUnblock == 21
EvGoSysExit == 29
EvTimerGoroutine == 35

oldLatest == Version3

oldTypeValid(t) == EvNone < t /\ t < oldEvCount

\* the number of arguments of each type in the schemas of this generation
oldSchemaLen ==
    << 2, 1, 2, 3, 2, 1, 3, 1, 1, 1, 2, 1, 4, 3, 1, 2, 2, 2, 2, 2, 4,
       2, 2, 2, 2, 2, 2, 2, 4, 1, 2, 2, 2, 2, 1, 1,
       1, 2, 3, 3, 4, 2 >>

oldTypeSince(t) ==
    IF t % oldEvCount = 0 THEN 0
    ELSE IF t % oldEvCount <= 36 THEN Version1
    ELSE IF t % oldEvCount <= 40 THEN Version2
    ELSE Version3

oldNilEvent == [typ |-> -1, args |-> <<>>, data |-> <<>>, off |-> 0]

oldNilState == [ver |-> -1]

oldMkErr(kind, id) ==
    IF kind = "ErrVersion" THEN [kind |-> kind, id |-> 0] ELSE MkErr(kind, id)

\* newState of this generation
oldNewState ==
    [ver |-> oldLatest, count |-> 0, frameSize |-> 4, argOffset |-> 0,
     freq |-> U64Zero, strings |-> EmptyMap, stacks |-> EmptyMap]

\* decodeHeader of this generation: 16 bytes through the offsetReader
oldDecodeHeader(r) ==
    LET n  == Min(16, Len(r.Reader))
        b  == SubSeq(r.Reader, 1, n)
        r1 == [Reader |-> Drop(r.Reader, n), off |-> r.off + n]
    IN  IF n < 16 THEN [r |-> r1, ver |-> 0, err |-> "UnexpectedEOF"]
        ELSE IF b[1] # 103 \/ b[2] # 111 \/ b[3] # 32
        THEN [r |-> r1, ver |-> 0, err |-> "HeaderPrefix"]
        ELSE IF b[4] # 49 \/ b[5] # 46 \/ b[7] # 32
        THEN [r |-> r1, ver |-> 0, err |-> "ErrVersion"]
        ELSE IF b[6] \notin {53, 55, 56}
        THEN [r |-> r1, ver |-> 0, err |-> "ErrVersion"]
        ELSE IF SubSeq(b, 8, 16) # headerLut
        THEN [r |-> r1, ver |-> 0, err |-> "HeaderSuffix"]
        ELSE [r |-> r1,
              ver |-> CASE b[6] = 53 -> Version1
                        [] b[6] = 55 -> Version2
                        [] b[6] = 56 -> Version3,
              err |-> "nil"]

\* decodeInitVersion: the state and the decode function of a version
decodeInitVersion(v) ==
    IF v = Version1
    THEN [decode |-> "decodeEventVersion1",
          state |-> [oldNewState EXCEPT !.ver = v, !.argOffset = 1,
                                        !.frameSize = 1],
          err |-> "nil"]
    ELSE IF v = Version2
    THEN [decode |-> "decodeEventVersion2",
          state |-> [oldNewState EXCEPT !.ver = v], err |-> "nil"]
    ELSE IF v = Version3
    THEN [decode |-> "decodeEventVersion3",
          state |-> [oldNewState EXCEPT !.ver = v], err |-> "nil"]
    ELSE [decode |-> "decodeEventVersionErr",
          state |-> [oldNewState EXCEPT !.ver = v], err |-> "ErrVersion"]

\* decodeInit: the header, then decodeInitVersion
decodeInit(r) ==
    LET h == oldDecodeHeader(r)
    IN  IF h.err # "nil"
        THEN [r |-> h.r, decode |-> "decodeEventVersionErr",
              state |-> oldNilState, err |-> h.err]
        ELSE [r |-> h.r] @@ decodeInitVersion(h.ver)

\* decodeEventInline of this generation: n values, or the error as it is
RECURSIVE oldDecodeEventInlineLoop(_, _, _)
oldDecodeEventInlineLoop(r, n, args) ==
    IF Len(args) >= n THEN [r |-> r, args |-> args, err |-> "nil"]
    ELSE LET u == decodeUleb(r.Reader)
         IN  IF u.err # "nil"
             THEN [r |-> AfterUleb(r, u), args |-> <<>>, err |-> u.err]
             ELSE oldDecodeEventInlineLoop(
                      AfterUleb(r, u), n, Append(args, u.v))

oldDecodeEventInline(r, n) ==
    IF maxMakeSize < n THEN [r |-> r, args |-> <<>>, err |-> "SizeLimit"]
    ELSE oldDecodeEventInlineLoop(r, n, <<>>)

\* decodeEventData of this generation: a size, then size raw bytes
oldDecodeEventData(r) ==
    LET u  == decodeUleb(r.Reader)
        r1 == AfterUleb(r, u)
    IN  IF u.err # "nil" THEN [r |-> r1, data |-> <<>>, err |-> u.err]
        ELSE IF U64Less(U64FromInt(maxMakeSize), u.v)
        THEN [r |-> r1, data |-> <<>>, err |-> "SizeLimit"]
        ELSE LET size == U64ToInt(u.v)
                 k    == Min(size, Len(r1.Reader))
                 r2   == [Reader |-> Drop(r1.Reader, k), off |-> r1.off + k]
             IN  IF k = size
                 THEN [r |-> r2, data |-> SubSeq(r1.Reader, 1, k),
                       err |-> "nil"]
                 ELSE [r |-> r2, data |-> <<>>,
                       err |-> IF k = 0 THEN "EOF" ELSE "UnexpectedEOF"]

\* decodeEventArgs of this generation: values until the offset has advanced
\* by the declared length
RECURSIVE oldDecodeEventArgsLoop(_, _, _)
oldDecodeEventArgsLoop(r, args, until) ==
    IF ~(r.off < until) THEN [r |-> r, args |-> args, err |-> "nil"]
    ELSE LET u == decodeUleb(r.Reader)
         IN  IF u.err # "nil"
             THEN [r |-> AfterUleb(r, u), args |-> <<>>, err |-> u.err]
             ELSE oldDecodeEventArgsLoop(
                      AfterUleb(r, u), Append(args, u.v), until)

oldDecodeEventArgs(r) ==
    LET u  == decodeUleb(r.Reader)
        r1 == AfterUleb(r, u)
    IN  IF u.err # "nil" THEN [r |-> r1, args |-> <<>>, err |-> u.err]
        ELSE IF U64Less(U64FromInt(maxMakeSize), u.v)
        THEN [r |-> r1, args |-> <<>>, err |-> "ArgLimit"]
        ELSE oldDecodeEventArgsLoop(r1, <<>>, r1.off + U64ToInt(u.v))

\* decodeEventType of this generation
oldDecodeEventType(r) ==
    IF Len(r.Reader) = 0
    THEN [r |-> [r EXCEPT !.off = r.off + 1], typ |-> EvNone, args |-> 0,
          err |-> "EOF"]
    ELSE LET byt == r.Reader[1]
             r1  == [Reader |-> Drop(r.Reader, 1), off |-> r.off + 1]
         IN  IF ~oldTypeValid(byt % 64)
             THEN [r |-> r1, typ |-> EvNone, args |-> 0,
                   err |-> "InvalidType"]
             ELSE [r |-> r1, typ |-> byt % 64, args |-> (byt \div 64) + 1,
                   err |-> "nil"]

\* decodeEvent of this generation: a new event, or no event and an error
oldDecodeEvent(r, s) ==
    LET t == oldDecodeEventType(r)
    IN  IF t.err # "nil" THEN [r |-> t.r, evt |-> oldNilEvent, err |-> t.err]
        ELSE IF oldTypeSince(t.typ) > s.ver
        THEN [r |-> t.r, evt |-> oldNilEvent, err |-> "Unsupported"]
        ELSE IF t.typ = EvString
        THEN LET a == oldDecodeEventInline(t.r, 1)
                 d == oldDecodeEventData(a.r)
             IN  IF a.err # "nil"
                 THEN [r |-> a.r, evt |-> oldNilEvent, err |-> a.err]
                 ELSE IF d.err # "nil"
                 THEN [r |-> d.r, evt |-> oldNilEvent, err |-> d.err]
                 ELSE [r |-> d.r,
                       evt |-> [typ |-> t.typ, args |-> a.args,
                                data |-> d.data, off |-> t.r.off - 1],
                       err |-> "nil"]
        ELSE LET a == IF t.args < 4
                      THEN oldDecodeEventInline(t.r, t.args + s.argOffset)
                      ELSE oldDecodeEventArgs(t.r)
             IN  IF a.err # "nil"
                 THEN [r |-> a.r, evt |-> oldNilEvent, err |-> a.err]
                 ELSE [r |-> a.r,
                       evt |-> [typ |-> t.typ, args |-> a.args,
                                data |-> <<>>, off |-> t.r.off - 1],
                       err |-> "nil"]

\* state.validateArgCount of this generation (max = -1 for no maximum)
oldValidateArgCount(e, min, max) ==
    IF Len(e.args) < min THEN "ArgCount"
    ELSE IF max # -1 /\ Len(e.args) > max THEN "ArgCount"
    ELSE "nil"

\* state.visitFrequency: s.freq becomes 1e9 divided by the value kept here
oldVisitFrequency(s, e) ==
    IF oldValidateArgCount(e, 1, 1) # "nil"
    THEN [s |-> s, err |-> oldValidateArgCount(e, 1, 1)]
    ELSE IF e.args[1] = U64Zero THEN [s |-> s, err |-> "FrequencyZero"]
    ELSE [s |-> [s EXCEPT !.freq = e.args[1]], err |-> "nil"]

\* state.visitString with state.addString
oldVisitString(s, e) ==
    IF oldValidateArgCount(e, 1, 1) # "nil"
    THEN [s |-> s, err |-> oldValidateArgCount(e, 1, 1)]
    ELSE IF e.args[1] = U64Zero THEN [s |-> s, err |-> "ZeroStringId"]
    ELSE IF e.args[1] \in DOMAIN s.strings
    THEN [s |-> s, err |-> "DuplicateString"]
    ELSE [s |-> [s EXCEPT !.strings = (e.args[1] :> e.data) @@ @],
          err |-> "nil"]

\* 4 * v on uint64
U64Times4(v) ==
    [i \in 1..4 |->
        (v[i] % 16384) * 4 + IF i > 1 THEN v[i - 1] \div 16384 ELSE 0]

\* state.visitStack with decodeStackFuncSize1, decodeStackFuncSize4 and
\* state.addStack; the frame size of a state is 1 or 4.  size is
\* int(evt.args[1]): a value of 2^63 or more is a negative size, which
\* passes the limit, and make panics on it when size * frameSize wraps to
\* the number of frame arguments
oldVisitStack(s, e) ==
    IF oldValidateArgCount(e, 2, -1) # "nil"
    THEN [s |-> s, err |-> oldValidateArgCount(e, 2, -1)]
    ELSE LET id   == e.args[1]
             neg  == e.args[2][4] >= 32768
             size == U64ToInt(e.args[2])
             got  == Len(e.args) - 2
             stk  == [i \in 1..size |->
                        LET pos == 2 + (i - 1) * s.frameSize
                        IN  IF s.frameSize = 1
                            THEN [pc |-> e.args[pos + 1]]
                            ELSE [pc |-> e.args[pos + 1],
                                  fn |-> e.args[pos + 2],
                                  file |-> e.args[pos + 3],
                                  line |-> IntOfU64(e.args[pos + 4])]]
         IN  IF id = U64Zero THEN [s |-> s, err |-> "ZeroStackId"]
             ELSE IF neg
             THEN IF s.frameSize = 4
                     /\ U64Times4(e.args[2]) = U64FromInt(got)
                  THEN [s |-> s, err |-> "panic"]
                  ELSE [s |-> s, err |-> "StackMismatch"]
             ELSE IF U64Less(U64FromInt(maxStackSize), e.args[2])
             THEN [s |-> s, err |-> "StackLimit"]
             ELSE IF got # size * s.frameSize
             THEN [s |-> s, err |-> "StackMismatch"]
             ELSE IF id \in DOMAIN s.stacks
             THEN [s |-> s, err |-> "DuplicateStack"]
             ELSE [s |-> [s EXCEPT !.stacks = (id :> stk) @@ @],
                   err |-> "nil"]

\* state.visit of this generation: the event is counted when it is accepted
oldVisit(s, e) ==
    IF ~oldTypeValid(e.typ) THEN [s |-> s, err |-> "OldInvalid"]
    ELSE IF oldSchemaLen[e.typ] > Len(e.args)
    THEN [s |-> s, err |-> "SchemaArgs"]
    ELSE LET r == IF e.typ = EvFrequency THEN oldVisitFrequency(s, e)
                  ELSE IF e.typ = EvString THEN oldVisitString(s, e)
                  ELSE IF e.typ = EvStack THEN oldVisitStack(s, e)
                  ELSE [s |-> s, err |-> "nil"]
         IN  IF r.err = "nil"
             THEN [s |-> [r.s EXCEPT !.count = @ + 1], err |-> "nil"]
             ELSE r

\* the switch of decodeEventVersion1 with the values of GoStart assigned in
\* the order of GCStart
version1ArgsGoStartAsGCStart(typ, a) ==
    LET n  == Len(a)
        ts == U64Zero
    IN  IF typ = EvStack THEN [args |-> a, panic |-> FALSE]
        ELSE IF typ = EvBatch
        THEN [args |-> a, panic |-> n < 3]
        ELSE IF typ \in {EvFrequency, EvTimerGoroutine}
        THEN [args |-> SubSeq(a, 1, 1), panic |-> n < 1]
        ELSE IF typ \in {EvGCStart, EvGoStart}
        THEN IF n < 3 THEN [args |-> a, panic |-> TRUE]
             ELSE [args |-> <<ts, U64Zero, a[3]>> \o SubSeq(a, 4, n),
                   panic |-> FALSE]
        ELSE IF typ = EvGoUnblock
        THEN IF n < 4 THEN [args |-> a, panic |-> TRUE]
             ELSE [args |-> <<ts, a[3], U64Zero, a[4]>> \o SubSeq(a, 5, n),
                   panic |-> FALSE]
        ELSE IF n < 2 THEN [args |-> a, panic |-> TRUE]
             ELSE [args |-> <<ts>> \o SubSeq(a, 3, n), panic |-> FALSE]

\* the switch of decodeEventVersion1 on the type of the event read, a being
\* e.args: the args it leaves in the event, or a panic when an index or a
\* slice bound is out of range.  ts is the zero `var ts uint64`; a and
\* e.args are one slice, so the case of EvBatch assigns each element to
\* itself; the case of EvGoSysExit is a comment, so that type takes the
\* default case, which drops the first value and stores ts over the next
version1Args(typ, a) ==
    LET n  == Len(a)
        ts == U64Zero
    IN  IF typ = EvStack THEN [args |-> a, panic |-> FALSE]
        ELSE IF typ = EvBatch
        THEN [args |-> a, panic |-> n < 3]
        ELSE IF typ \in {EvFrequency, EvTimerGoroutine}
        THEN [args |-> SubSeq(a, 1, 1), panic |-> n < 1]
        ELSE IF typ = EvGCStart
        THEN IF n < 3 THEN [args |-> a, panic |-> TRUE]
             ELSE [args |-> <<ts, U64Zero, a[3]>> \o SubSeq(a, 4, n),
                   panic |-> FALSE]
        ELSE IF typ = EvGoStart
        THEN IF n < 3 THEN [args |-> a, panic |-> TRUE]
             ELSE [args |-> <<ts, a[3], U64Zero>> \o SubSeq(a, 4, n),
                   panic |-> FALSE]
        ELSE IF typ = EvGoUnblock
        THEN IF n < 4 THEN [args |-> a, panic |-> TRUE]
             ELSE [args |-> <<ts, a[3], U64Zero, a[4]>> \o SubSeq(a, 5, n),
                   panic |-> FALSE]
        ELSE IF n < 2 THEN [args |-> a, panic |-> TRUE]
             ELSE [args |-> <<ts>> \o SubSeq(a, 3, n), panic |-> FALSE]

\* decodeEventVersion1 after its call of decodeEvent, d being what that
\* call returned: the switch, then state.visit; raw is what decodeEvent read
version1Visit(s, d) ==
    LET n == version1Args(d.evt.typ, d.evt.args)
        e == [d.evt EXCEPT !.args = n.args]
        v == oldVisit(s, e)
    IN  IF d.err # "nil"
        THEN [r |-> d.r, s |-> s, evt |-> oldNilEvent, err |-> d.err,
              panic |-> FALSE, raw |-> <<>>]
        ELSE IF n.panic \/ v.err = "panic"
        THEN [r |-> d.r, s |-> s, evt |-> oldNilEvent, err |-> "nil",
              panic |-> TRUE, raw |-> d.evt.args]
        ELSE IF v.err # "nil"
        THEN [r |-> d.r, s |-> v.s, evt |-> oldNilEvent, err |-> v.err,
              panic |-> FALSE, raw |-> d.evt.args]
        ELSE [r |-> d.r, s |-> v.s, evt |-> e, err |-> "nil",
              panic |-> FALSE, raw |-> d.evt.args]

\* decodeEventVersion1: decodeEvent, the switch, then state.visit
decodeEventVersion1(r, s) == version1Visit(s, oldDecodeEvent(r, s))

\* decodeEventVersion2 and decodeEventVersion3 after their call of
\* decodeEvent, d being what that call returned: state.visit
version2Visit(s, d) ==
    LET v == oldVisit(s, d.evt)
    IN  IF d.err # "nil"
        THEN [r |-> d.r, s |-> s, evt |-> oldNilEvent, err |-> d.err,
              panic |-> FALSE, raw |-> <<>>]
        ELSE IF v.err = "panic"
        THEN [r |-> d.r, s |-> s, evt |-> oldNilEvent, err |-> "nil",
              panic |-> TRUE, raw |-> d.evt.args]
        ELSE IF v.err # "nil"
        THEN [r |-> d.r, s |-> v.s, evt |-> oldNilEvent, err |-> v.err,
              panic |-> FALSE, raw |-> d.evt.args]
        ELSE [r |-> d.r, s |-> v.s, evt |-> d.evt, err |-> "nil",
              panic |-> FALSE, raw |-> d.evt.args]

\* decodeEventVersion2 and decodeEventVersion3: decodeEvent, then state.visit
decodeEventVersion2(r, s) == version2Visit(s, oldDecodeEvent(r, s))

decodeEventVersion3(r, s) == decodeEventVersion2(r, s)

\* NewDecoder of this generation
oldNewDecoder(src) ==
    [err |-> Nil, buf |-> [Reader |-> src, off |-> 0],
     state |-> oldNilState, decode |-> "nil"]

\* Decoder.init of this generation, guarded by d.decode
oldDecoderInit(d, id) ==
    IF d.err # Nil THEN d
    ELSE IF d.decode # "nil"
    THEN [d EXCEPT !.err = MkErr("ConcurrentUse", id)]
    ELSE LET i == decodeInit(d.buf)
         IN  [err |-> oldMkErr(i.err, id), buf |-> i.r, state |-> i.state,
              decode |-> i.decode]

\* Decoder.Decode of this generation after d.init, d1 being the decoder it
\* left and r what d.decode returns on it: the error is latched, EOF before
\* the first event is io.ErrUnexpectedEOF
oldDecodeLatch(d1, r, id) ==
    LET d2 == [d1 EXCEPT !.buf = r.r, !.state = r.s]
        e  == IF r.err = "EOF" /\ d1.state.count = 0
              THEN MkErr("UnexpectedEOF", id)
              ELSE oldMkErr(r.err, id)
    IN  IF d1.err # Nil
        THEN [d |-> d1, evt |-> oldNilEvent, err |-> d1.err,
              panic |-> FALSE, raw |-> <<>>]
        ELSE IF r.panic
        THEN [d |-> d2, evt |-> oldNilEvent, err |-> Nil, panic |-> TRUE,
              raw |-> r.raw]
        ELSE IF r.err # "nil"
        THEN [d |-> [d2 EXCEPT !.err = e], evt |-> oldNilEvent, err |-> e,
              panic |-> FALSE, raw |-> r.raw]
        ELSE [d |-> d2, evt |-> r.evt, err |-> Nil, panic |-> FALSE,
              raw |-> r.raw]

\* d.decode of a decoder after d.init
oldDecoderCall(d1) ==
    IF d1.decode = "decodeEventVersion1"
    THEN decodeEventVersion1(d1.buf, d1.state)
    ELSE decodeEventVersion2(d1.buf, d1.state)

\* Decoder.Decode of this generation on a decoder after d.init
oldDecoderDecoded(d1, id) == oldDecodeLatch(d1, oldDecoderCall(d1), id)

\* Decoder.Decode of this generation: the decoder after the call, the event
\* and the error returned, whether the call panicked, and what decodeEvent
\* read for the event
oldDecoderDecode(d, id) ==
    oldDecoderDecoded(IF d.decode = "nil" THEN oldDecoderInit(d, id) ELSE d,
                      id)

---------------------------------------------------------------------------
(* bounds and the byte streams the decoder is run on *)

MaxCalls == 5       \* API calls per behaviour
MaxEvents == 2      \* wire events per source stream
MaxTailLen == 1     \* bytes that follow a LEB128 value in the harness

U64Max == <<65535, 65535, 65535, 65535>>

\* 2^k - 1 for 0 <= k <= 64
U64Ones(k) ==
    [i \in 1..4 |->
        IF k >= 16 * i THEN 65535
        ELSE IF k <= 16 * (i - 1) THEN 0
        ELSE Pow2(k - 16 * (i - 1)) - 1]

\* events on the wire in the form of revisions 2 and later:
\* ProcStop [128]; ProcStart [1, 2]; GoCreate [1, 2, 3, 300] with a length
\* prefix; String id 5 "fo"
WireEvents ==
    { <<6, 128, 1>>,
      <<69, 1, 2>>,
      <<205, 5, 1, 2, 3, 172, 2>>,
      <<37, 5, 2, 102, 111>> }

RECURSIVE WireSeqs(_)
WireSeqs(k) ==
    IF k = 0 THEN {<<>>}
    ELSE WireSeqs(k - 1) \cup
         {a \o w : a \in WireSeqs(k - 1), w \in WireEvents}

\* bodies that are rejected: type 0, type 63, a uleb of 10 continuation
\* bytes, a String of declared size 10^6 + 1, a body length of 10^6 + 1
BadBodies ==
    { <<0>>, <<63, 1>>,
      <<6, 255, 255, 255, 255, 255, 255, 255, 255, 255, 255, 1>>,
      <<37, 1, 193, 132, 61>>,
      <<205, 193, 132, 61>> }

Bodies ==
    UNION {{SubSeq(b, 1, n) : n \in 0..Len(b)} : b \in WireSeqs(MaxEvents)}
    \cup BadBodies

ValidHeaders == {HeaderWith(c) : c \in {53, 55, 56, 57}}

\* "go 1.11 trace\x00\x00\x00"
Header111 ==
    <<103, 111, 32, 49, 46, 49, 49, 32, 116, 114, 97, 99, 101, 0, 0, 0>>

\* headers with a wrong prefix, wrong literal bytes around the version, an
\* unknown version and a wrong suffix
BadHeaders ==
    { [HeaderWith(57) EXCEPT ![1] = 120],
      [HeaderWith(57) EXCEPT ![4] = 50],
      HeaderWith(54),
      [HeaderWith(57) EXCEPT ![16] = 1],
      Header111 }

\* one event of every type value under every valid header
TypeStreams ==
    {h \o <<t, 1, 2>> : h \in ValidHeaders, t \in 1..47}

\* the Stack event [1, 1, 0xabc, 10, 20, 42] of revision 4, once and twice
StackStreams ==
    { HeaderWith(57) \o <<195, 7, 1, 1, 188, 21, 10, 20, 42>>,
      HeaderWith(57) \o <<195, 7, 1, 1, 188, 21, 10, 20, 42>>
                     \o <<195, 7, 1, 1, 188, 21, 10, 20, 42>> }

Sources ==
    {h \o b : h \in ValidHeaders, b \in Bodies}
    \cup TypeStreams
    \cup StackStreams
    \cup {h \o b : h \in BadHeaders,
                   b \in {<<>>, <<6, 1>>, HeaderWith(57) \o <<6, 1>>}}
    \cup {SubSeq(HeaderWith(57), 1, n) : n \in 0..15}

\* the streams a Decoder is reset to
ResetSources ==
    { <<>>,
      HeaderWith(57) \o <<6, 1>>,
      HeaderWith(53) \o <<6, 1, 2>>,
      [HeaderWith(57) EXCEPT ![16] = 1] }

NumSinks == 2       \* io.Writers that accept every write

GoodSinks == 1..NumSinks

AllSinks == GoodSinks \cup {FailSink}

\* the events given to Emit: one to five arguments, Strings with and
\* without data, the largest argument, and events Emit rejects (type 0,
\* type Count, no argument)
EmitEvents ==
    { [Type |-> 6, Args |-> <<U64FromInt(128)>>, Data |-> <<>>, Off |-> 0],
      [Type |-> 5, Args |-> <<U64FromInt(1), U64FromInt(2)>>,
       Data |-> <<>>, Off |-> 0],
      [Type |-> 7, Args |-> <<U64FromInt(1), U64Zero, U64FromInt(99)>>,
       Data |-> <<>>, Off |-> 0],
      [Type |-> 13,
       Args |-> <<U64FromInt(1), U64FromInt(2), U64FromInt(3),
                  U64FromInt(300)>>,
       Data |-> <<>>, Off |-> 0],
      [Type |-> 3,
       Args |-> <<U64FromInt(1), U64FromInt(1), U64FromInt(2748),
                  U64FromInt(10), U64FromInt(20), U64FromInt(42)>>,
       Data |-> <<>>, Off |-> 0],
      [Type |-> 44, Args |-> <<U64Max>>, Data |-> <<>>, Off |-> 0],
      [Type |-> EvString, Args |-> <<U64FromInt(5)>>,
       Data |-> <<102, 111, 111>>, Off |-> 0],
      [Type |-> EvString, Args |-> <<U64FromInt(6)>>, Data |-> <<>>,
       Off |-> 0],
      [Type |-> EvNone, Args |-> <<U64FromInt(1)>>, Data |-> <<>>,
       Off |-> 0],
      [Type |-> EvCount, Args |-> <<U64FromInt(1)>>, Data |-> <<>>,
       Off |-> 0],
      [Type |-> 6, Args |-> <<>>, Data |-> <<>>, Off |-> 0] }

\* the values of the LEB128 harness: 2^k - 1 and 2^k for every k, and two
\* values with mixed bits
LebValues ==
    {U64Ones(k) : k \in 0..64} \cup {U64Shl(1, k) : k \in 0..63}
    \cup {<<48879, 57005, 4660, 32768>>, <<300, 0, 0, 0>>}

RECURSIVE SeqsUpTo(_, _)
SeqsUpTo(S, n) ==
    IF n = 0 THEN {<<>>}
    ELSE SeqsUpTo(S, n - 1) \cup
         {Append(q, x) : q \in SeqsUpTo(S, n - 1), x \in S}

LebTails == SeqsUpTo({0, 129, 255}, MaxTailLen)

MaxVisits == 3      \* calls made on a Trace per behaviour

\* a sequence of small integers as uint64 values
U64s(q) == [i \in DOMAIN q |-> U64FromInt(q[i])]

TEv(t, args, data) == [Type |-> t, Args |-> args, Data |-> data, Off |-> 0]

\* a Stack event [id, n, 1 .. k]
StackOf(id, n, k) ==
    TEv(EvStack, U64s(<<id, n>> \o [i \in 1..k |-> i]), <<>>)

\* the String events visited: identifiers 0, 1 and 2 with two texts, an
\* empty text, two arguments, no argument
StringEvents ==
    {TEv(EvString, U64s(<<id>>), d) :
        id \in 0..2, d \in {<<102>>, <<103, 111>>}}
    \cup { TEv(EvString, U64s(<<1>>), <<>>),
           TEv(EvString, U64s(<<2, 7>>), <<102>>),
           TEv(EvString, <<>>, <<102>>) }

\* the Stack events visited: frames of width 1 and of width 4, no frame,
\* identifier 0, counts above and below what the arguments hold, one
\* argument,
\* a line with the top bit set, and counts at and above maxStackSize
StackEvents ==
    { StackOf(1, 1, 1), StackOf(2, 2, 2), StackOf(1, 0, 0),
      StackOf(0, 1, 1), StackOf(0, 1, 4), StackOf(1, 1, 4),
      StackOf(2, 2, 8), StackOf(2, 2, 5), StackOf(1, 2, 1),
      StackOf(2, 0, 1),
      TEv(EvStack, U64s(<<1>>), <<>>),
      TEv(EvStack, U64s(<<2, 1, 2748, 10, 20>>) \o <<U64Max>>, <<>>),
      StackOf(1, maxStackSize, maxStackSize),
      StackOf(2, maxStackSize + 1, maxStackSize + 1),
      StackOf(2, maxStackSize + 1, 4 * (maxStackSize + 1)) }

\* other events visited: ProcStop, Gomaxprocs with and without all its
\* arguments, Frequency 0, and the types 0 and Count
OtherEvents ==
    { TEv(6, U64s(<<9>>), <<>>),
      TEv(4, U64s(<<9, 8, 1>>), <<>>),
      TEv(4, U64s(<<9, 8>>), <<>>),
      TEv(2, U64s(<<0>>), <<>>),
      TEv(EvNone, U64s(<<1>>), <<>>),
      TEv(EvCount, U64s(<<1>>), <<>>) }

VisitEvents == StringEvents \cup StackEvents \cup OtherEvents \cup {NilEvent}

\* the events a stack is looked up for: a StackID argument 1, 2 or 3, args
\* that end at or before the StackID position, a type with no StackID
\* argument, a Stack event, and GoCreate with both of its stack arguments
LookupEvents ==
    {TEv(4, U64s(<<9, 8, sid>>), <<>>) : sid \in 1..3}
    \cup { TEv(4, U64s(<<9, 8>>), <<>>),
           TEv(4, U64s(<<9>>), <<>>),
           TEv(6, U64s(<<9>>), <<>>),
           TEv(EvStack, U64s(<<2, 0>>), <<>>),
           TEv(EvStack, <<>>, <<>>),
           TEv(13, U64s(<<9, 7, 1, 2>>), <<>>) }

---------------------------------------------------------------------------
(* the idle values of the components a specification does not run *)

LebIdle == [pc |-> "idle", v |-> U64Zero, tail |-> <<>>, bytes |-> <<>>,
            res |-> [v |-> U64Zero, err |-> "nil", n |-> 0, reads |-> 0]]

NoRet == [op |-> "none", err |-> Nil, ver |-> 0, more |-> FALSE]

NoERet == [op |-> "none", err |-> Nil, evt |-> ZeroEvent]

\* what is recorded of a session, from NewDecoder or Reset to the next
\* Reset: the source, the calls made, the events decoded, how often More
\* has returned false, the outcome of the first header parse, and the
\* identifiers of the String and Stack events decoded
NoHeader == [done |-> FALSE, ver |-> 0, err |-> Nil]

NewSession(src) ==
    [src |-> src, calls |-> 0, decoded |-> 0, moreFalse |-> 0,
     hdr |-> NoHeader, defs |-> {}]

\* the outcome of the header parse made by the call numbered id
HeaderResult(d, id) ==
    LET h == decodeHeader(d.state)
    IN  [done |-> TRUE, ver |-> h.s.ver,
         err |-> IF h.err = "nil" THEN Nil ELSE MkErr(h.err, id)]

\* the identifier a String or Stack event defines
Defines(e) ==
    IF e.Type \in {EvString, EvStack} /\ Len(e.Args) >= 1
    THEN {<<e.Type, e.Args[1]>>}
    ELSE {}

DecIdle ==
    /\ dec = NewDecoder(<<>>)
    /\ evt = ZeroEvent
    /\ ret = NoRet
    /\ session = NewSession(<<>>)

NoTRet ==
    [op |-> "none", err |-> Nil, evt |-> ZeroEvent, found |-> FALSE,
     stk |-> <<>>, panic |-> FALSE]

\* what is recorded of a Trace: its last call, the Visit calls that
\* returned nil, the (id, text) pairs of the one-argument String events
\* with a non-zero id that were visited, and whether two of them had the
\* same id
NewTLog == [ret |-> NoTRet, ok |-> 0, strs |-> {}, dup |-> FALSE]

TraceIdle ==
    /\ tr = NewTrace(Latest)
    /\ tlog = NewTLog

EncIdle ==
    /\ enc = NewEncoder(1)
    /\ sinks = [w \in AllSinks |-> <<>>]
    /\ sent = [w \in AllSinks |-> <<>>]
    /\ eret = NoERet

OldIdle == [pc |-> "idle"]

ThrIdle == [pc |-> "idle"]

WireIdle == [pc |-> "idle"]

OthersIdle ==
    /\ prev = 0
    /\ old = OldIdle
    /\ thr = ThrIdle
    /\ wire = WireIdle

---------------------------------------------------------------------------
(* the Decoder's API calls as actions; every Decode is given a new event *)

\* the session after a Decode whose outcome is r
SessionAfterDecode(r, id) ==
    [session EXCEPT
        !.calls = @ + 1,
        !.decoded = IF r.err = Nil THEN @ + 1 ELSE @,
        !.hdr = IF @.done THEN @ ELSE HeaderResult(dec, id),
        !.defs = IF r.err = Nil THEN @ \cup Defines(r.evt) ELSE @]

DecodeOp ==
    /\ calls < MaxCalls
    /\ LET r == DecoderDecode(dec, ZeroEvent, calls + 1)
       IN  /\ dec' = r.d
           /\ evt' = r.evt
           /\ ret' = [op |-> "Decode", err |-> r.err, ver |-> 0,
                      more |-> FALSE]
           /\ session' = SessionAfterDecode(r, calls + 1)
    /\ calls' = calls + 1
    /\ UNCHANGED <<others, tr, tlog, leb, enc, sinks, sent, eret>>

DecodeNilOp ==
    /\ calls < MaxCalls
    /\ LET r == DecoderDecode(dec, NilEvent, calls + 1)
       IN  /\ dec' = r.d
           /\ ret' = [op |-> "DecodeNil", err |-> r.err, ver |-> 0,
                      more |-> FALSE]
    /\ session' = [session EXCEPT !.calls = @ + 1]
    /\ calls' = calls + 1
    /\ UNCHANGED <<others, tr, tlog, leb, evt, enc, sinks, sent, eret>>

VersionOp ==
    /\ calls < MaxCalls
    /\ LET r == DecoderVersion(dec, calls + 1)
       IN  /\ dec' = r.d
           /\ ret' = [op |-> "Version", err |-> r.err, ver |-> r.ver,
                      more |-> FALSE]
    /\ session' = [session EXCEPT
                       !.calls = @ + 1,
                       !.hdr = IF @.done THEN @
                               ELSE HeaderResult(dec, calls + 1)]
    /\ calls' = calls + 1
    /\ UNCHANGED <<others, tr, tlog, leb, evt, enc, sinks, sent, eret>>

MoreOp ==
    /\ calls < MaxCalls
    /\ LET r == DecoderMore(dec)
       IN  /\ dec' = r.d
           /\ ret' = [op |-> "More", err |-> Nil, ver |-> 0,
                      more |-> r.more]
           /\ session' = [session EXCEPT
                              !.calls = @ + 1,
                              !.moreFalse = IF r.more THEN @ ELSE @ + 1]
    /\ calls' = calls + 1
    /\ UNCHANGED <<others, tr, tlog, leb, evt, enc, sinks, sent, eret>>

ResetOp ==
    /\ calls < MaxCalls
    /\ \E r \in ResetSources :
          /\ dec' = DecoderReset(dec, r)
          /\ session' = NewSession(r)
    /\ ret' = [op |-> "Reset", err |-> Nil, ver |-> 0, more |-> FALSE]
    /\ calls' = calls + 1
    /\ UNCHANGED <<others, tr, tlog, leb, evt, enc, sinks, sent, eret>>

ResetNilOp ==
    /\ calls < MaxCalls
    /\ dec' = DecoderResetNil(dec, calls + 1)
    /\ ret' = [op |-> "ResetNil", err |-> Nil, ver |-> 0, more |-> FALSE]
    /\ session' = [session EXCEPT !.calls = @ + 1]
    /\ calls' = calls + 1
    /\ UNCHANGED <<others, tr, tlog, leb, evt, enc, sinks, sent, eret>>

\* a Decoder made by NewDecoder over any of the sources
Init ==
    /\ \E src \in Sources :
          /\ dec = NewDecoder(src)
          /\ session = NewSession(src)
    /\ evt = ZeroEvent
    /\ ret = NoRet
    /\ leb = LebIdle
    /\ EncIdle
    /\ TraceIdle
    /\ calls = 0
    /\ OthersIdle

Next ==
    \/ DecodeOp
    \/ DecodeNilOp
    \/ VersionOp
    \/ MoreOp
    \/ ResetOp
    \/ ResetNilOp

Spec == Init /\ [][Next]_vars

---------------------------------------------------------------------------
(* the Encoder's API calls as actions *)

EmitOp ==
    /\ calls < MaxCalls
    /\ \E ev \in EmitEvents :
          LET r == EncoderEmit(enc, ev, calls + 1)
              w == enc.w.w
          IN  /\ enc' = r.e
              /\ sinks' = [sinks EXCEPT ![w] = @ \o r.bytes]
              /\ sent' = IF r.err = Nil
                         THEN [sent EXCEPT ![w] = Append(@, ev)]
                         ELSE sent
              /\ eret' = [op |-> "Emit", err |-> r.err, evt |-> ev]
    /\ calls' = calls + 1
    /\ UNCHANGED <<others, tr, tlog, leb, dec, evt, ret, session>>

EncResetOp ==
    /\ calls < MaxCalls
    /\ \E w \in AllSinks : enc' = EncoderReset(enc, w)
    /\ eret' = [op |-> "Reset", err |-> Nil, evt |-> ZeroEvent]
    /\ calls' = calls + 1
    /\ UNCHANGED <<others, tr, tlog, leb, dec, evt, ret, session, sinks, sent>>

\* an Encoder made by NewEncoder over any writer
EncInit ==
    /\ \E w \in AllSinks : enc = NewEncoder(w)
    /\ sinks = [w \in AllSinks |-> <<>>]
    /\ sent = [w \in AllSinks |-> <<>>]
    /\ eret = NoERet
    /\ leb = LebIdle
    /\ DecIdle
    /\ TraceIdle
    /\ calls = 0
    /\ OthersIdle

EncNext == EmitOp \/ EncResetOp

SpecEnc == EncInit /\ [][EncNext]_vars

---------------------------------------------------------------------------
(* the LEB128 harness: encodeUleb of a value, then decodeUleb of the bytes *)
(* written followed by a tail                                              *)

LebEncode ==
    /\ leb.pc = "start"
    /\ leb' = [leb EXCEPT !.pc = "encoded", !.bytes = encodeUleb(leb.v)]
    /\ UNCHANGED <<others, tr, tlog, dec, evt, ret, session, enc, sinks, sent, eret, calls>>

LebDecode ==
    /\ leb.pc = "encoded"
    /\ leb' = [leb EXCEPT !.pc = "decoded",
                          !.res = decodeUleb(leb.bytes \o leb.tail)]
    /\ UNCHANGED <<others, tr, tlog, dec, evt, ret, session, enc, sinks, sent, eret, calls>>

LebInit ==
    /\ \E v \in LebValues, t \in LebTails :
          leb = [LebIdle EXCEPT !.pc = "start", !.v = v, !.tail = t]
    /\ DecIdle
    /\ EncIdle
    /\ TraceIdle
    /\ calls = 0
    /\ OthersIdle

LebNext == LebEncode \/ LebDecode

SpecLeb == LebInit /\ [][LebNext]_vars

---------------------------------------------------------------------------
(* the calls on a Trace as actions *)

StringDef(e) ==
    IF e.Type = EvString /\ Len(e.Args) = 1 /\ e.Args[1] # U64Zero
    THEN {<<e.Args[1], e.Data>>}
    ELSE {}

VisitOp ==
    /\ calls < MaxVisits
    /\ \E e \in VisitEvents :
          LET r == TraceVisit(tr, e, calls + 1)
          IN  /\ tr' = r.tr
              /\ tlog' =
                   [ret |-> [NoTRet EXCEPT !.op = "Visit", !.err = r.err,
                                           !.evt = e],
                    ok |-> IF r.err = Nil THEN tlog.ok + 1 ELSE tlog.ok,
                    strs |-> tlog.strs \cup StringDef(e),
                    dup |-> tlog.dup \/
                            \E p \in StringDef(e), q \in tlog.strs :
                               p[1] = q[1]]
    /\ calls' = calls + 1
    /\ UNCHANGED <<others, leb, dec, evt, ret, session, enc, sinks, sent, eret>>

StackOp ==
    /\ calls < MaxVisits
    /\ \E e \in LookupEvents :
          LET r == TraceStack(tr, e, calls + 1)
          IN  tlog' = [tlog EXCEPT
                          !.ret = [op |-> "Stack", err |-> r.err, evt |-> e,
                                   found |-> r.found, stk |-> r.stk,
                                   panic |-> r.panic]]
    /\ calls' = calls + 1
    /\ UNCHANGED <<others, tr, leb, dec, evt, ret, session, enc, sinks, sent, eret>>

\* a Trace made by NewTrace for any valid version
TraceInitial ==
    /\ \E v \in Version1..Version5 : tr = NewTrace(v)
    /\ tlog = NewTLog
    /\ leb = LebIdle
    /\ DecIdle
    /\ EncIdle
    /\ calls = 0
    /\ OthersIdle

TraceNext == VisitOp \/ StackOp

SpecTrace == TraceInitial /\ [][TraceNext]_vars

---------------------------------------------------------------------------
(* the Decoder on streams whose first event declares a length: a String    *)
(* or a length-prefixed body, with declared lengths around maxMakeSize and *)
(* bodies whose last value ends at, before and beyond the declared length  *)

\* the uleb128 forms of 2, of 10^6, of 10^6 + 1 and of 2^64 - 1
SizeLens ==
    { <<2>>, <<192, 132, 61>>, <<193, 132, 61>>,
      <<255, 255, 255, 255, 255, 255, 255, 255, 255, 1>> }

\* what follows the declared length: nothing, "fo", "fo" and a ProcStop
SizeTails == {<<>>, <<102, 111>>, <<102, 111, 6, 1>>}

\* String id 1 and GoCreate with a declared length
SizeBodies ==
    {<<37, 1>> \o l \o t : l \in SizeLens, t \in SizeTails}
    \cup {<<205>> \o l \o t : l \in SizeLens, t \in SizeTails}

\* GoCreate bodies followed by ProcStop [1]: two values in 2 bytes, a
\* second value of 2 bytes in a body declared as 2 or as 1 byte, four
\* values in 5 bytes, no value in 0 bytes
BoundaryBodies ==
    { <<205, 2, 1, 2, 6, 1>>,
      <<205, 2, 1, 130, 1, 6, 1>>,
      <<205, 1, 130, 1, 6, 1>>,
      <<205, 5, 1, 2, 3, 172, 2, 6, 1>>,
      <<205, 3, 1, 2, 3, 6, 1>>,
      <<205, 0, 6, 1>> }

WireSources ==
    {h \o b : h \in {HeaderWith(53), HeaderWith(55), HeaderWith(57)},
              b \in SizeBodies \cup BoundaryBodies}

WireInit ==
    /\ \E src \in WireSources :
          /\ dec = NewDecoder(src)
          /\ session = NewSession(src)
    /\ evt = ZeroEvent
    /\ ret = NoRet
    /\ leb = LebIdle
    /\ EncIdle
    /\ TraceIdle
    /\ calls = 0
    /\ OthersIdle

WireNext == DecodeOp \/ MoreOp

SpecWire == WireInit /\ [][WireNext]_vars

---------------------------------------------------------------------------
(* one Decoder taken by Reset from a stream of one revision to a stream of *)
(* another, on events in inline form                                       *)

\* ProcStop with arity code 0 twice, ProcStart with arity code 1, GCStart
\* with arity code 2, each followed by the values revision 1 reads
InlineBodies ==
    { <<6, 1, 2, 6, 3, 4>>, <<69, 1, 2, 3>>, <<135, 1, 2, 3, 4>> }

SwitchSources ==
    {h \o b : h \in {HeaderWith(53), HeaderWith(57)}, b \in InlineBodies}

\* Decoder.Reset to a stream of SwitchSources; prev keeps the version of
\* the session that ends
SwitchOp ==
    /\ calls < MaxCalls
    /\ \E r \in SwitchSources :
          /\ dec' = DecoderReset(dec, r)
          /\ session' = NewSession(r)
    /\ prev' = dec.state.ver
    /\ ret' = [op |-> "Reset", err |-> Nil, ver |-> 0, more |-> FALSE]
    /\ calls' = calls + 1
    /\ UNCHANGED <<old, thr, wire, tr, tlog, leb, evt, enc, sinks, sent, eret>>

SwitchInit ==
    /\ \E src \in SwitchSources \cup {HeaderWith(55) \o <<69, 1, 2, 3>>} :
          /\ dec = NewDecoder(src)
          /\ session = NewSession(src)
    /\ evt = ZeroEvent
    /\ ret = NoRet
    /\ leb = LebIdle
    /\ EncIdle
    /\ TraceIdle
    /\ calls = 0
    /\ OthersIdle

SwitchNext == DecodeOp \/ VersionOp \/ SwitchOp

SpecSwitch == SwitchInit /\ [][SwitchNext]_vars

---------------------------------------------------------------------------
(* the Decoder of the first generation on streams of revision 1: every     *)
(* event carries the sequence delta and the tick delta before its own      *)
(* arguments                                                               *)

\* events in the form of revision 1: Batch [3, 7, 42]; Frequency [15, 0]
\* and [0, 0]; TimerGoroutine [9, 0]; GCStart [7, 42, 99]; GoStart
\* [7, 42, 5]; GoUnblock [7, 42, 5, 99]; GoSysExit [7, 42, 5, 3, 77];
\* ProcStop [7, 42]; ProcStart [7, 42, 11]; HeapAlloc [7, 42, 300];
\* GoCreate [7, 42, 5, 88, 99]; Stack [1, 2, 10, 20]; GoCreate with a
\* body of no value
V1Events ==
    { <<65, 3, 7, 42>>,
      <<2, 15, 0>>, <<2, 0, 0>>,
      <<35, 9, 0>>,
      <<71, 7, 42, 99>>,
      <<78, 7, 42, 5>>,
      <<149, 7, 42, 5, 99>>,
      <<221, 5, 7, 42, 5, 3, 77>>,
      <<6, 7, 42>>,
      <<69, 7, 42, 11>>,
      <<97, 7, 42, 172, 2>>,
      <<205, 5, 7, 42, 5, 88, 99>>,
      <<195, 4, 1, 2, 10, 20>>,
      <<205, 0>> }

RECURSIVE V1Seqs(_)
V1Seqs(k) ==
    IF k = 0 THEN {<<>>}
    ELSE V1Seqs(k - 1) \cup {a \o w : a \in V1Seqs(k - 1), w \in V1Events}

\* revision-1 streams, and streams of revisions 2 and 3, of an unknown
\* revision and without a whole header
V1Sources ==
    {HeaderWith(53) \o b : b \in V1Seqs(MaxEvents)}
    \cup { HeaderWith(55) \o <<37, 5, 2, 102, 111, 6, 1>>,
           HeaderWith(56) \o <<195, 6, 1, 1, 10, 20, 30, 40>>,
           HeaderWith(57) \o <<6, 1>>,
           <<103, 111>> }

\* what is kept of a Decode call: the event and error returned, whether it
\* panicked, and the values decodeEvent read for the event
OldAfterDecode(r) ==
    [d |-> r.d, src |-> old.src,
     ret |-> [op |-> "Decode", evt |-> r.evt, err |-> r.err,
              panic |-> r.panic, raw |-> r.raw]]

\* Decoder.Decode of the first generation; a panic ends the run
OldDecodeOp ==
    /\ calls < MaxCalls
    /\ ~old.ret.panic
    /\ old' = OldAfterDecode(oldDecoderDecode(old.d, calls + 1))
    /\ calls' = calls + 1
    /\ UNCHANGED <<prev, thr, wire, tr, tlog, leb, dec, evt, ret, session, enc,
                   sinks, sent, eret>>

OldInit ==
    /\ \E src \in V1Sources :
          old = [d |-> oldNewDecoder(src), src |-> src,
                 ret |-> [op |-> "none", evt |-> oldNilEvent, err |-> Nil,
                          panic |-> FALSE, raw |-> <<>>]]
    /\ prev = 0
    /\ thr = ThrIdle
    /\ wire = WireIdle
    /\ DecIdle
    /\ leb = LebIdle
    /\ EncIdle
    /\ TraceIdle
    /\ calls = 0

OldNext == OldDecodeOp

SpecV1 == OldInit /\ [][OldNext]_vars

---------------------------------------------------------------------------
(* two goroutines that each make the first Version call on one new         *)
(* Decoder, of the first generation (gen = 1: Version with the init that   *)
(* tests d.decode) or of the second (gen = 2: Version with the init that   *)
(* tests nothing).  Nothing orders the two calls, so their reads and       *)
(* writes of the Decoder's fields interleave; a step is one test or one    *)
(* read of the source or one assignment.  thr keeps the position of each   *)
(* goroutine, the 16 bytes it has read into its `var b [16]byte`, what its *)
(* call returned, and the number of header reads made.                     *)

Threads == 1..2

ThrStart(g) ==
    [gen |-> g, pc |-> [t \in Threads |-> "start"],
     b |-> [t \in Threads |-> <<>>],
     ret |-> [t \in Threads |-> [ver |-> 0, err |-> Nil, panic |-> FALSE]],
     reads |-> 0]

\* streams of two headers, of one header, and of less than a header
ConcSources ==
    { HeaderWith(55) \o HeaderWith(55) \o <<6, 1>>,
      HeaderWith(57) \o HeaderWith(57) \o <<6, 1>>,
      HeaderWith(53) \o HeaderWith(56) \o <<6, 1, 2>>,
      HeaderWith(55) \o <<6, 1>>,
      HeaderWith(57) \o <<6, 1>>,
      <<103, 111>> }

\* second generation, Version: `if d.state.ver == 0`
NewCheck(t) ==
    /\ thr.gen = 2 /\ thr.pc[t] = "start"
    /\ thr' = [thr EXCEPT !.pc[t] = IF dec.state.ver = 0 THEN "read"
                                    ELSE "err"]
    /\ UNCHANGED <<prev, old, wire, tr, tlog, leb, dec, evt, ret, session, enc,
                   sinks, sent, eret, calls>>

\* second generation, init, decodeHeader: io.ReadFull(s, b[:])
NewRead(t) ==
    /\ thr.gen = 2 /\ thr.pc[t] = "read"
    /\ LET n == Min(16, Len(dec.state.Reader))
       IN  /\ thr' = [thr EXCEPT !.pc[t] = "parse",
                                 !.b[t] = SubSeq(dec.state.Reader, 1, n),
                                 !.reads = @ + 1]
           /\ dec' = [dec EXCEPT !.state.Reader = Drop(@, n),
                                 !.state.off = @ + n]
    /\ UNCHANGED <<prev, old, wire, tr, tlog, leb, evt, ret, session, enc,
                   sinks, sent, eret, calls>>

\* second generation, init: the rest of decodeHeader on the bytes read,
\* halt on an error, the arg offset of Version1
NewParse(t) ==
    /\ thr.gen = 2 /\ thr.pc[t] = "parse"
    /\ LET h  == decodeHeader([dec.state EXCEPT !.Reader = thr.b[t]])
           s1 == [dec.state EXCEPT !.ver = h.s.ver]
       IN  dec' = IF h.err # "nil"
                  THEN DecoderHalt([dec EXCEPT !.state = s1],
                                   MkErr(h.err, t))
                  ELSE [dec EXCEPT !.state =
                           IF s1.ver = Version1
                           THEN [s1 EXCEPT !.argoff = 1] ELSE s1]
    /\ thr' = [thr EXCEPT !.pc[t] = "err"]
    /\ UNCHANGED <<prev, old, wire, tr, tlog, leb, evt, ret, session, enc,
                   sinks, sent, eret, calls>>

\* second generation, Version: `if d.err != nil` and the return
NewReturn(t) ==
    /\ thr.gen = 2 /\ thr.pc[t] = "err"
    /\ thr' = [thr EXCEPT
                  !.pc[t] = "done",
                  !.ret[t] = [ver |-> IF dec.err # Nil THEN 0
                                      ELSE dec.state.ver,
                              err |-> dec.err, panic |-> FALSE]]
    /\ UNCHANGED <<prev, old, wire, tr, tlog, leb, dec, evt, ret, session, enc,
                   sinks, sent, eret, calls>>

\* first generation, Version: `if d.err != nil` and `if d.decode == nil`
OldEntry(t) ==
    /\ thr.gen = 1 /\ thr.pc[t] = "start"
    /\ thr' = IF old.d.err # Nil
              THEN [thr EXCEPT !.pc[t] = "done", !.ret[t].err = old.d.err]
              ELSE [thr EXCEPT !.pc[t] = IF old.d.decode = "nil"
                                         THEN "guard" ELSE "ret"]
    /\ UNCHANGED <<prev, old, wire, tr, tlog, leb, dec, evt, ret, session, enc,
                   sinks, sent, eret, calls>>

\* first generation, init: `if d.err != nil` and `if d.decode != nil`
OldGuard(t) ==
    /\ thr.gen = 1 /\ thr.pc[t] = "guard"
    /\ thr' = [thr EXCEPT !.pc[t] =
                  IF old.d.err = Nil /\ old.d.decode = "nil" THEN "read"
                  ELSE "ret"]
    /\ old' = IF old.d.err = Nil /\ old.d.decode # "nil"
              THEN [old EXCEPT !.d.err = MkErr("ConcurrentUse", t)]
              ELSE old
    /\ UNCHANGED <<prev, wire, tr, tlog, leb, dec, evt, ret, session, enc,
                   sinks, sent, eret, calls>>

\* first generation, decodeInit, decodeHeader: io.ReadFull(r, b[:])
OldRead(t) ==
    /\ thr.gen = 1 /\ thr.pc[t] = "read"
    /\ LET n == Min(16, Len(old.d.buf.Reader))
       IN  /\ thr' = [thr EXCEPT !.pc[t] = "assign",
                                 !.b[t] = SubSeq(old.d.buf.Reader, 1, n),
                                 !.reads = @ + 1]
           /\ old' = [old EXCEPT !.d.buf.Reader = Drop(@, n),
                                 !.d.buf.off = @ + n]
    /\ UNCHANGED <<prev, wire, tr, tlog, leb, dec, evt, ret, session, enc,
                   sinks, sent, eret, calls>>

\* first generation, init: the rest of decodeInit on the bytes read, and
\* `d.decode, d.state, d.err = ...`
OldAssign(t) ==
    /\ thr.gen = 1 /\ thr.pc[t] = "assign"
    /\ LET i == decodeInit([Reader |-> thr.b[t], off |-> 0])
       IN  old' = [old EXCEPT !.d.decode = i.decode, !.d.state = i.state,
                              !.d.err = oldMkErr(i.err, t)]
    /\ thr' = [thr EXCEPT !.pc[t] = "ret"]
    /\ UNCHANGED <<prev, wire, tr, tlog, leb, dec, evt, ret, session, enc,
                   sinks, sent, eret, calls>>

\* first generation, Version: `return d.state.ver, nil`, a nil pointer
\* dereference when the header was rejected
OldReturn(t) ==
    /\ thr.gen = 1 /\ thr.pc[t] = "ret"
    /\ thr' = [thr EXCEPT
                  !.pc[t] = "done",
                  !.ret[t] = IF old.d.state = oldNilState
                             THEN [ver |-> 0, err |-> Nil, panic |-> TRUE]
                             ELSE [ver |-> old.d.state.ver, err |-> Nil,
                                   panic |-> FALSE]]
    /\ UNCHANGED <<prev, old, wire, tr, tlog, leb, dec, evt, ret, session, enc,
                   sinks, sent, eret, calls>>

ConcInit ==
    /\ \E g \in 1..2, src \in ConcSources :
          /\ thr = ThrStart(g)
          /\ dec = NewDecoder(src)
          /\ session = NewSession(src)
          /\ old = [d |-> oldNewDecoder(src), src |-> src,
                    ret |-> [op |-> "none", evt |-> oldNilEvent,
                             err |-> Nil, panic |-> FALSE, raw |-> <<>>]]
    /\ evt = ZeroEvent
    /\ ret = NoRet
    /\ prev = 0
    /\ wire = WireIdle
    /\ leb = LebIdle
    /\ EncIdle
    /\ TraceIdle
    /\ calls = 0

ConcNext ==
    \E t \in Threads :
        \/ NewCheck(t) \/ NewRead(t) \/ NewParse(t) \/ NewReturn(t)
        \/ OldEntry(t) \/ OldGuard(t) \/ OldRead(t) \/ OldAssign(t)
        \/ OldReturn(t)

SpecConc == ConcInit /\ [][ConcNext]_vars

---------------------------------------------------------------------------
(* the encodeEvent harness: encodeEvent of one event to a writer that      *)
(* accepts every byte                                                      *)

MaxArgs == 5

\* Batch, ProcStop, GoCreate and the last type, with one to MaxArgs
\* arguments of 1, 2 and 10 bytes, and without an argument; Strings with no
\* data, two bytes and 130 bytes of data, with one and two arguments; the
\* types 0 and Count; a String without an argument
FormEvents ==
    {TEv(t, a, <<>>) :
        t \in {EvBatch, 6, 13, EvCount - 1},
        a \in SeqsUpTo({U64FromInt(1), U64FromInt(128), U64Max}, MaxArgs)}
    \cup {TEv(EvString, a, d) :
            a \in {<<U64FromInt(5)>>, <<U64FromInt(300), U64FromInt(1)>>},
            d \in {<<>>, <<102, 111>>, [i \in 1..130 |-> i]}}
    \cup {TEv(EvNone, U64s(<<1>>), <<>>), TEv(EvCount, U64s(<<1>>), <<>>),
          TEv(EvString, <<>>, <<102, 111>>)}

EncodeEventOp ==
    /\ wire.pc = "start"
    /\ LET r == WriteTo(1, encodeEvent(wire.evt))
       IN  wire' = [wire EXCEPT !.pc = "done", !.bytes = r.bytes,
                                !.err = r.err]
    /\ UNCHANGED <<prev, old, thr, tr, tlog, leb, dec, evt, ret, session, enc,
                   sinks, sent, eret, calls>>

FormInit ==
    /\ \E e \in FormEvents :
          wire = [pc |-> "start", evt |-> e, bytes |-> <<>>, err |-> "nil"]
    /\ prev = 0
    /\ old = OldIdle
    /\ thr = ThrIdle
    /\ DecIdle
    /\ leb = LebIdle
    /\ EncIdle
    /\ TraceIdle
    /\ calls = 0

FormNext == EncodeEventOp

SpecForm == FormInit /\ [][FormNext]_vars

---------------------------------------------------------------------------
(* the Version.Types harness: Types of one Version, a byte *)

TypesOp ==
    /\ wire.pc = "version"
    /\ wire' = [wire EXCEPT !.pc = "types", !.types = VersionTypes(wire.ver)]
    /\ UNCHANGED <<prev, old, thr, tr, tlog, leb, dec, evt, ret, session, enc,
                   sinks, sent, eret, calls>>

TypesInit ==
    /\ \E v \in 0..255 : wire = [pc |-> "version", ver |-> v, types |-> <<>>]
    /\ prev = 0
    /\ old = OldIdle
    /\ thr = ThrIdle
    /\ DecIdle
    /\ leb = LebIdle
    /\ EncIdle
    /\ TraceIdle
    /\ calls = 0

TypesNext == TypesOp

SpecTypes == TypesInit /\ [][TypesNext]_vars

---------------------------------------------------------------------------
(* the decodeUleb harness: decodeUleb of one byte sequence *)

MaxLebLen == 11     \* continuation bytes at the head of a sequence

\* up to MaxLebLen continuation bytes (all 0x80, all 0xff, or all 0x81),
\* then nothing or a byte with a clear high bit
RawLebs ==
    {[i \in 1..k |-> c] \o t :
        k \in 0..MaxLebLen, c \in {128, 129, 255},
        t \in {<<>>, <<0>>, <<1>>, <<2>>, <<127>>}}

UlebOp ==
    /\ leb.pc = "raw"
    /\ leb' = [leb EXCEPT !.pc = "read", !.res = decodeUleb(leb.bytes)]
    /\ UNCHANGED <<others, tr, tlog, dec, evt, ret, session, enc, sinks,
                   sent, eret, calls>>

UlebInit ==
    /\ \E b \in RawLebs : leb = [LebIdle EXCEPT !.pc = "raw", !.bytes = b]
    /\ DecIdle
    /\ EncIdle
    /\ TraceIdle
    /\ calls = 0
    /\ OthersIdle

UlebNext == UlebOp

SpecUleb == UlebInit /\ [][UlebNext]_vars

---------------------------------------------------------------------------
(* the Event.Get and Event.Lookup harness: one call on one event *)

\* Gomaxprocs, ProcStop, GoCreate, String and the types 0 and 46, with no
\* argument up to four arguments 10, 20, 30, 40
ArgEvents ==
    {TEv(t, U64s([i \in 1..n |-> 10 * i]), <<>>) :
        t \in {EvNone, 4, 6, 13, EvString, 46}, n \in 0..4}

ArgNames == {"Timestamp", "Gomaxprocs", "StackID", "NewStackID", "KeyID"}

GetOp ==
    /\ wire.pc = "event"
    /\ LET g == EventGet(wire.evt, wire.name)
       IN  wire' = [wire EXCEPT !.pc = "Get", !.v = g.v, !.found = FALSE,
                                !.panic = g.panic]
    /\ UNCHANGED <<prev, old, thr, tr, tlog, leb, dec, evt, ret, session, enc,
                   sinks, sent, eret, calls>>

LookupOp ==
    /\ wire.pc = "event"
    /\ LET g == EventLookup(wire.evt, wire.name)
       IN  wire' = [wire EXCEPT !.pc = "Lookup", !.v = g.v,
                                !.found = g.found, !.panic = g.panic]
    /\ UNCHANGED <<prev, old, thr, tr, tlog, leb, dec, evt, ret, session, enc,
                   sinks, sent, eret, calls>>

ArgInit ==
    /\ \E e \in ArgEvents, nm \in ArgNames :
          wire = [pc |-> "event", evt |-> e, name |-> nm, v |-> U64Zero,
                  found |-> FALSE, panic |-> FALSE]
    /\ prev = 0
    /\ old = OldIdle
    /\ thr = ThrIdle
    /\ DecIdle
    /\ leb = LebIdle
    /\ EncIdle
    /\ TraceIdle
    /\ calls = 0

ArgNext == GetOp \/ LookupOp

SpecArg == ArgInit /\ [][ArgNext]_vars

---------------------------------------------------------------------------
(* a Trace that is visited and reset: prev keeps the Version the Trace had *)
(* before its last Reset                                                   *)

TraceResetOp ==
    /\ calls < MaxVisits
    /\ tr' = TraceReset(tr)
    /\ prev' = tr.Version
    /\ tlog' = [NewTLog EXCEPT !.ret.op = "Reset"]
    /\ calls' = calls + 1
    /\ UNCHANGED <<old, thr, wire, leb, dec, evt, ret, session, enc, sinks,
                   sent, eret>>

ResetNext == VisitOp \/ TraceResetOp

SpecReset == TraceInitial /\ [][ResetNext]_vars

---------------------------------------------------------------------------
(* definitions the properties are stated with *)

RECURSIVE BitLenInt(_)
BitLenInt(n) == IF n = 0 THEN 0 ELSE 1 + BitLenInt(n \div 2)

\* the number of significant bits of a uint64
U64BitLen(v) ==
    IF v[4] # 0 THEN 48 + BitLenInt(v[4])
    ELSE IF v[3] # 0 THEN 32 + BitLenInt(v[3])
    ELSE IF v[2] # 0 THEN 16 + BitLenInt(v[2])
    ELSE BitLenInt(v[1])

\* max(1, ceil(bitlen(v) / 7))
LebLen(v) == IF U64BitLen(v) = 0 THEN 1 ELSE (U64BitLen(v) + 6) \div 7

\* the canonical 16-byte header of each revision, as the format defines it
CanonicalHeader(r) ==
    IF r = 1 THEN HeaderWith(53)
    ELSE IF r = 2 THEN HeaderWith(55)
    ELSE IF r = 3 THEN HeaderWith(56)
    ELSE IF r = 4 THEN HeaderWith(57)
    ELSE Header111

\* type, args and data of an event, the offset left out
Payload(e) == [Type |-> e.Type, Args |-> e.Args, Data |-> e.Data]

\* a fresh Decoder run over a stream until Decode returns an error: the
\* events decoded and what Err() reports at the end
RECURSIVE DecodeRest(_, _)
DecodeRest(d, acc) ==
    LET r == DecoderDecode(d, ZeroEvent, 1)
    IN  IF r.err # Nil THEN [events |-> acc, err |-> DecoderErr(r.d)]
        ELSE DecodeRest(r.d, Append(acc, Payload(r.evt)))

DecodeStream(bytes) == DecodeRest(NewDecoder(bytes), <<>>)

\* an event the round trip is claimed for: a valid type, at least one
\* argument, exactly one for a String, data only in a String
RoundTripEvent(e) ==
    /\ TypeValid(e.Type)
    /\ Len(e.Args) >= 1
    /\ e.Type = EvString => Len(e.Args) = 1
    /\ e.Type # EvString => e.Data = <<>>

\* whether the first 16 bytes of the session's source are a canonical header
SourceHeader == SubSeq(session.src, 1, Min(16, Len(session.src)))

---------------------------------------------------------------------------
(* properties *)

\* C1: once the Decoder has latched an error e, every later Decode,
\* Version and More call without Reset leaves e in place: Decode and
\* Version return exactly e, More returns false and the event given to
\* Decode keeps Type EvNone.
C1_DecoderLatch ==
    [][(dec.err # Nil /\ ret'.op \in {"Decode", "Version", "More"})
        => /\ dec'.err = dec.err
           /\ ret'.op \in {"Decode", "Version"} => ret'.err = dec.err
           /\ ret'.op = "More" => ~ret'.more
           /\ ret'.op = "Decode" => evt'.Type = EvNone]_vars

\* C2: the first Emit of a fresh Encoder given a round-trip event writes a
\* stream whose first Decode by a fresh Decoder returns no error and an
\* event of the same type, args and data.
C2_RoundTrip ==
    (eret.op = "Emit" /\ calls = 1 /\ enc.w.w \in GoodSinks
        /\ RoundTripEvent(eret.evt))
    => LET r == DecoderDecode(NewDecoder(sinks[enc.w.w]), ZeroEvent, 1)
       IN  r.err = Nil /\ Payload(r.evt) = Payload(eret.evt)

\* C3: Decode returns the clean end-of-stream (io.EOF, which Err() reports
\* as nil) only if an event was decoded in the session.
C3_CleanEndNeedsEvent ==
    (ret.op = "Decode" /\ ret.err = MkErr("EOF", 0)) => session.decoded >= 1

\* C4: a Decode that has read a valid tag byte never ends with the clean
\* end-of-stream: a source ending inside the event gives UnexpectedEOF.
C4_EndInsideEvent ==
    (ret.op = "Decode" /\ TypeValid(evt.Type)) => ret.err # MkErr("EOF", 0)

\* C5: decodeUleb of the bytes encodeUleb wrote for v, whatever follows
\* them, returns v without error and consumes exactly those bytes, and
\* their number is max(1, ceil(bitlen(v)/7)), at most 10.
C5_LebRoundTrip ==
    /\ leb.pc \in {"encoded", "decoded"}
          => Len(leb.bytes) = LebLen(leb.v) /\ Len(leb.bytes) <= 10
    /\ leb.pc = "decoded"
          => /\ leb.res.err = "nil"
             /\ leb.res.v = leb.v
             /\ leb.res.n = Len(leb.bytes)

C5_Witness ==
    /\ leb.pc = "decoded"
    /\ leb.v = U64Max
    /\ Len(leb.bytes) = 10
    /\ leb.tail # <<>>

\* C6: the first Version call of a session returns revision r without
\* error when the source begins with the canonical header of r, for r in
\* 1..5, UnexpectedEOF when the source has fewer than 16 bytes, and an
\* error for every other 16-byte prefix.
C6_HeaderMap ==
    (ret.op = "Version" /\ session.calls = 1)
    => IF Len(session.src) < 16 THEN ret.err = MkErr("UnexpectedEOF", 0)
       ELSE IF \E r \in 1..5 : SourceHeader = CanonicalHeader(r)
       THEN /\ ret.err = Nil
            /\ SourceHeader = CanonicalHeader(ret.ver)
       ELSE ret.err # Nil

\* C7: the first Emit of a fresh Encoder given an event the encoder
\* accepts succeeds and leaves in the writer the canonical header of the
\* latest revision followed by the encoding of the event.
C7_EmitWritesHeader ==
    (eret.op = "Emit" /\ calls = 1 /\ enc.w.w \in GoodSinks
        /\ encodeEvent(eret.evt).err = "nil")
    => /\ eret.err = Nil
       /\ sinks[enc.w.w] =
             CanonicalHeader(Latest) \o encodeEvent(eret.evt).bytes

\* C8: Reset clears the error and the offset, and an Emit of an accepted
\* event right after Reset(w) succeeds, writes only to w, and leaves in w
\* a stream that a fresh Decoder decodes without error into exactly the
\* events emitted to w.
C8_EncoderReset ==
    [][/\ eret'.op = "Reset" => enc'.err = Nil /\ enc'.w.off = 0
       /\ (eret.op = "Reset" /\ eret'.op = "Emit" /\ enc.w.w \in GoodSinks
              /\ encodeEvent(eret'.evt).err = "nil")
          => /\ eret'.err = Nil
             /\ \A w \in AllSinks \ {enc.w.w} : sinks'[w] = sinks[w]
             /\ LET d == DecodeStream(sinks'[enc.w.w])
                IN  /\ d.err = Nil
                    /\ d.events =
                          [i \in 1..Len(sent'[enc.w.w]) |->
                              Payload(sent'[enc.w.w][i])]]_vars

\* C9: once Emit has returned an error e, every later Emit without Reset
\* returns exactly e and writes nothing, and Err() reports e.
C9_EncoderLatch ==
    [][/\ (eret'.op = "Emit" /\ eret'.err # Nil)
          => EncoderErr(enc') = eret'.err
       /\ (enc.err # Nil /\ eret'.op = "Emit")
          => /\ eret'.err = enc.err
             /\ EncoderErr(enc') = enc.err
             /\ sinks' = sinks]_vars

C9_Witness ==
    /\ eret.op = "Emit"
    /\ eret.err # Nil
    /\ eret.err.id + 2 <= calls
    /\ enc.err = eret.err

\* C10: a Decode that has read the tag byte of a valid type t under header
\* revision r fails with the unsupported-in-revision error exactly when
\* since_revision(t) > r; the failing call has read the tag byte only, has
\* set no argument, and its error is the Decoder's error, which later
\* Decode, Version and More calls keep.
C10_RevisionGating ==
    [][/\ (ret'.op = "Decode" /\ TypeValid(evt'.Type))
          => /\ ret'.err.kind = "Unsupported"
                   <=> TypeSince(evt'.Type) > dec'.state.ver
             /\ ret'.err.kind = "Unsupported"
                   => /\ dec'.err = ret'.err
                      /\ evt'.Args = <<>> /\ evt'.Data = <<>>
                      /\ dec'.state.off =
                            1 + IF dec.state.ver = 0 THEN 16
                                ELSE dec.state.off
       /\ (dec.err.kind = "Unsupported"
              /\ ret'.op \in {"Decode", "Version", "More"})
          => /\ dec'.err = dec.err
             /\ ret'.op \in {"Decode", "Version"} => ret'.err = dec.err]_vars

C10_Witness ==
    /\ ret.op = "Decode"
    /\ ret.err.kind = "Unsupported"
    /\ ret.err.id + 1 <= calls
    /\ dec.state.ver = Version3
    /\ dec.state.off = 17

\* C11: More returns true only when no error is latched and a byte can be
\* peeked, and once More has returned false in a session every later More
\* of that session returns false.
C11_MoreMonotone ==
    [][ret'.op = "More"
        => /\ ret'.more => dec.err = Nil /\ Len(dec.state.Reader) > 0
           /\ session.moreFalse > 0 => ~ret'.more]_vars

C11_Witness ==
    /\ ret.op = "More"
    /\ ~ret.more
    /\ session.moreFalse >= 2
    /\ session.decoded >= 1

\* C12: the header is read by the first Version or Decode call of a
\* session; every later Version call consumes no byte of the source and
\* returns the revision that parse gave, or the error it latched.
C12_VersionOnce ==
    [][(session.hdr.done /\ ret'.op = "Version")
        => /\ dec'.state.Reader = dec.state.Reader
           /\ dec'.state.off = dec.state.off
           /\ (session.hdr.err = Nil /\ dec.err = Nil)
                 => ret'.ver = session.hdr.ver /\ ret'.err = Nil
           /\ (session.hdr.err # Nil /\ dec.err = session.hdr.err)
                 => ret'.ver = 0 /\ ret'.err = session.hdr.err]_vars

C14_DecodeVisits ==
    [][(ret'.op = "Decode" /\ ret'.err = Nil)
        => Defines(evt') \cap session.defs = {}]_vars

\* C15: every event a successful Decode returns into a reset event has a
\* valid type, at least as many args as the schema of its type declares,
\* and data only if its type is String.
C15_DecodedEvent ==
    (ret.op = "Decode" /\ ret.err = Nil)
    => /\ TypeValid(evt.Type)
       /\ Len(evt.Args) >= Len(TypeArgs(evt.Type))
       /\ evt.Data # <<>> => evt.Type = EvString

\* C16: while the String events visited (one argument, a non-zero id)
\* have pairwise distinct ids, the string dictionary has exactly one entry
\* for each of them and maps each id to the bytes of the event that
\* defined it, whatever other events were visited in between.
C16_StringDictionary ==
    ~tlog.dup
    => /\ DOMAIN tr.Strings = {p[1] : p \in tlog.strs}
       /\ Cardinality(DOMAIN tr.Strings) = Cardinality(tlog.strs)
       /\ \A p \in tlog.strs : tr.Strings[p[1]] = p[2]

C16_Witness ==
    /\ ~tlog.dup
    /\ Cardinality(tlog.strs) = 2
    /\ tlog.ok = 3
    /\ tlog.ret.op = "Visit"
    /\ tlog.ret.evt.Type = EvString

\* C17: a visit of a String or Stack event whose id is 0 or is already in
\* the dictionary of its kind returns an error (the zero-id or the
\* duplicate-id error when the event is otherwise well formed) and leaves
\* both dictionaries exactly as they were.
C17_RejectedDefinitions ==
    [][tlog'.ret.op = "Visit"
        => LET e    == tlog'.ret.evt
               zero == e.Args[1] = U64Zero
               str  == e.Type = EvString /\ Len(e.Args) >= 1
               stk  == e.Type = EvStack /\ Len(e.Args) >= 1
           IN  /\ (str /\ (zero \/ e.Args[1] \in DOMAIN tr.Strings))
                  => /\ tlog'.ret.err # Nil
                     /\ tr'.Strings = tr.Strings
                     /\ tr'.Stacks = tr.Stacks
                     /\ Len(e.Args) = 1
                          => tlog'.ret.err.kind =
                               IF zero THEN "ZeroStringId"
                               ELSE "DuplicateString"
               /\ (stk /\ (zero \/ e.Args[1] \in DOMAIN tr.Stacks))
                  => /\ tlog'.ret.err # Nil
                     /\ tr'.Strings = tr.Strings
                     /\ tr'.Stacks = tr.Stacks
                     /\ (Len(e.Args) >= 2 /\ zero)
                          => tlog'.ret.err.kind = "ZeroStackId"
                     /\ tlog'.ret.err.kind
                            \in {"SchemaArgs", "ZeroStackId", "StackLimit",
                                 "StackMismatch", "DuplicateStack"}]_vars

C17_Witness ==
    /\ tlog.ret.op = "Visit"
    /\ tlog.ret.err.kind = "DuplicateStack"
    /\ tlog.ret.evt.Args[1] \in DOMAIN tr.Stacks
    /\ tr.Strings # EmptyMap

\* C18: a visited Stack event [id, n, frames...] is accepted exactly when
\* id is not 0, n is at most 1000, the arguments after the first two are
\* n times the frame width (1 for revision 1, 4 for later revisions) and
\* id is not yet defined; the stack then stored under id has n frames and
\* frame i takes its pc (and, for width 4, its function id, file id and
\* line) from the arguments in order.
C18_StackAcceptance ==
    [][(tlog'.ret.op = "Visit" /\ tlog'.ret.evt.Type = EvStack)
        => LET a  == tlog'.ret.evt.Args
               fw == IF tr.Version = Version1 THEN 1 ELSE 4
               n  == U64ToInt(a[2])
               ok == /\ Len(a) >= 2
                     /\ a[1] # U64Zero
                     /\ ~U64Less(U64FromInt(1000), a[2])
                     /\ Len(a) - 2 = n * fw
                     /\ a[1] \notin DOMAIN tr.Stacks
           IN  /\ tlog'.ret.err = Nil <=> ok
               /\ ok => /\ DOMAIN tr'.Stacks = DOMAIN tr.Stacks \cup {a[1]}
                         /\ Len(tr'.Stacks[a[1]]) = n
                         /\ \A i \in 1..n :
                               LET f == tr'.Stacks[a[1]][i]
                                   b == 2 + (i - 1) * fw
                               IN  /\ f.pc = a[b + 1]
                                   /\ fw = 4 => /\ f.fn = a[b + 2]
                                                 /\ f.file = a[b + 3]
                                                 /\ f.line.bits = a[b + 4]
               /\ \A id \in DOMAIN tr.Stacks :
                      tr'.Stacks[id] = tr.Stacks[id]]_vars

C18_Witness ==
    /\ tlog.ret.op = "Visit"
    /\ tlog.ret.err = Nil
    /\ tlog.ret.evt.Type = EvStack
    /\ tr.Version = Version3
    /\ Len(tr.Stacks[tlog.ret.evt.Args[1]]) = 2

\* C19: Count is the number of Visit calls that returned no error.
C19_VisitCount == tr.Count = tlog.ok

\* C20: Trace.Stack of an event whose schema has a StackID argument, whose
\* args reach that position and whose StackID was defined by a Stack visit
\* returns the stored stack and a nil error; for every other event it
\* returns the not-found error, and it fails in no other way.
C20_StackLookup ==
    tlog.ret.op = "Stack"
    => LET e == tlog.ret.evt
           a == schemasArgs[e.Type]
           P == {i \in 1..Len(a) : a[i] = "StackID"}
           defined == /\ P # {}
                      /\ \A i \in P : /\ i <= Len(e.Args)
                                       /\ e.Args[i] \in DOMAIN tr.Stacks
       IN  /\ ~tlog.ret.panic
           /\ IF defined
              THEN /\ tlog.ret.err = Nil
                   /\ \A i \in P : tlog.ret.stk = tr.Stacks[e.Args[i]]
              ELSE tlog.ret.err.kind = "StackNotFound"

\* the first event of the session's source: its tag, whether it declares a
\* length (a String, or arity code 3), the declared length and the number
\* of bytes of the event that precede its payload
FirstTag == Drop(session.src, 16)[1]

FirstHasLength ==
    /\ Len(session.src) > 16
    /\ FirstTag % 64 = EvString \/ FirstTag \div 64 = 3

FirstLength ==
    LET body == Drop(session.src, 17)
        id   == decodeUleb(body)
        skip == IF FirstTag % 64 = EvString THEN id.n ELSE 0
        u    == decodeUleb(Drop(body, skip))
    IN  [ok |-> u.err = "nil" /\ (skip = 0 \/ id.err = "nil"),
         v |-> u.v, at |-> 17 + skip + u.n]

FirstDecoded ==
    /\ ret.op = "Decode"
    /\ session.calls = 1
    /\ session.hdr.err = Nil
    /\ TypeSince(FirstTag % 64) <= session.hdr.ver

\* C21: when the first event of a stream is a String or a length-prefixed
\* event that declares a length above 10^6, Decode returns the allocation
\* limit error, no byte after the length has been read, and the data of
\* the String, the args of the length-prefixed event, are empty; a
\* declared length of exactly 10^6 does not give that error.
C21_SizeBound ==
    (FirstDecoded /\ FirstHasLength /\ FirstLength.ok) =>
        IF U64Less(U64FromInt(1000000), FirstLength.v)
        THEN /\ ret.err.kind \in {"SizeLimit", "ArgLimit"}
             /\ dec.state.Reader = Drop(session.src, FirstLength.at)
             /\ FirstTag % 64 = EvString => evt.Data = <<>>
             /\ FirstTag % 64 # EvString => evt.Args = <<>>
        ELSE ret.err.kind \notin {"SizeLimit", "ArgLimit"}

C21_Witness ==
    /\ FirstDecoded /\ FirstHasLength /\ FirstLength.ok
    /\ FirstLength.v = U64FromInt(1000001)
    /\ ret.err.kind = "SizeLimit"
    /\ Len(dec.state.Reader) = 4

\* C29: after a Decode that returns nil for a first event in length-prefixed
\* form declaring L bytes, the bytes read from the source end exactly L
\* bytes after the length field.
C29_BodyLength ==
    (/\ FirstDecoded /\ FirstHasLength /\ FirstLength.ok
     /\ FirstTag % 64 # EvString
     /\ ret.err = Nil) =>
        Len(session.src) - Len(dec.state.Reader)
            = FirstLength.at + U64ToInt(FirstLength.v)

\* the events emitted in order through the Encoder e: whether every Emit
\* returned nil, and the bytes the writer received
RECURSIVE EmitAll(_, _, _)
EmitAll(e, events, acc) ==
    IF events = <<>> THEN [ok |-> TRUE, bytes |-> acc]
    ELSE LET ev == [Type |-> Head(events).Type, Args |-> Head(events).Args,
                    Data |-> Head(events).Data, Off |-> 0]
             r  == EncoderEmit(e, ev, 1)
         IN  IF r.err # Nil THEN [ok |-> FALSE, bytes |-> acc \o r.bytes]
             ELSE EmitAll(r.e, Tail(events), acc \o r.bytes)

\* C25: when a Decoder has decoded its source to the end without error and
\* with at least one event,
\* emitting the decoded events in order through a fresh Encoder succeeds,
\* and a fresh Decoder decodes what was written, without error, into
\* events of the same types, args and data.
C25_ReEncode ==
    (ret.op = "Decode" /\ ret.err = MkErr("EOF", 0)
        /\ session.decoded >= 1) =>
        LET first  == DecodeStream(session.src)
            out    == EmitAll(NewEncoder(1), first.events, <<>>)
            second == DecodeStream(out.bytes)
        IN  first.err = Nil =>
               /\ out.ok
               /\ second.err = Nil
               /\ second.events = first.events

\* the number of bytes of the uleb128 forms of args, back to back
RECURSIVE LebLens(_)
LebLens(args) ==
    IF args = <<>> THEN 0 ELSE LebLen(Head(args)) + LebLens(Tail(args))

\* C28: in every state of the Decoder the arg offset is 1 exactly when the
\* version parsed from the header is revision 1, also after Reset has
\* taken the Decoder to a stream of another revision; and a Decode that
\* returns nil for a non-String event whose tag has arity code c < 3 has
\* read exactly c + 1 values, one more under a revision-1 header.
C28_InlineCount ==
    /\ dec.state.argoff = IF dec.state.ver = Version1 THEN 1 ELSE 0
    /\ (ret.op = "Decode" /\ ret.err = Nil /\ evt.Type # EvString
            /\ session.src[evt.Off + 1] \div 64 < 3) =>
          /\ Len(evt.Args) = session.src[evt.Off + 1] \div 64 + 1
                 + IF session.hdr.ver = Version1 THEN 1 ELSE 0
          /\ Len(session.src) - Len(dec.state.Reader)
                 = evt.Off + 1 + LebLens(evt.Args)

C28_Witness ==
    /\ prev = Version4
    /\ session.hdr.ver = Version1
    /\ ret.op = "Decode" /\ ret.err = Nil
    /\ session.src[evt.Off + 1] = 6
    /\ Len(evt.Args) = 2

\* a Decode of the first generation that returned an event of type t from
\* a revision-1 stream
V1Decoded(t) ==
    /\ old.ret.op = "Decode"
    /\ ~old.ret.panic
    /\ old.ret.err = Nil
    /\ old.d.state.ver = Version1
    /\ old.ret.evt.typ = t

\* C22: a revision-1 Batch read as [processor-id, sequence, timestamp] is
\* returned with the args [processor-id, timestamp].
C22_BatchV1 ==
    (V1Decoded(EvBatch) /\ Len(old.ret.raw) = 3) =>
        old.ret.evt.args = <<old.ret.raw[1], old.ret.raw[3]>>

C26_GoSysExitV1 ==
    V1Decoded(EvGoSysExit) => old.ret.evt.args = old.ret.raw

\* C27: a revision-1 event of a type without a case of its own is returned
\* with the values read for it, the first one removed and the others as
\* they were read.
C27_DefaultV1 ==
    \A t \in 1..(oldEvCount - 1) \
             {EvBatch, EvFrequency, EvTimerGoroutine, EvGCStart, EvGoStart,
              EvGoUnblock, EvStack, EvGoSysExit} :
        V1Decoded(t) => old.ret.evt.args = Tail(old.ret.raw)

\* C24: when both goroutines have returned from their first call and the
\* header has been read more than once (32 bytes taken from the source),
\* the Decoder holds an error.
C24_ConcurrentInit ==
    (\A t \in Threads : thr.pc[t] = "done") /\ thr.reads >= 2 =>
        IF thr.gen = 1 THEN old.d.err # Nil ELSE dec.err # Nil

\* the LEB128 form of v as the format defines it: LebLen(v) groups of 7
\* bits, least significant first, every group but the last with bit 7 set
RECURSIVE LebGroups(_, _)
LebGroups(v, n) ==
    IF n <= 1 THEN <<v[1] % 128>>
    ELSE <<128 + (v[1] % 128)>> \o LebGroups(U64Shr7(v), n - 1)

LebForm(v) == LebGroups(v, LebLen(v))

RECURSIVE LebForms(_)
LebForms(args) ==
    IF args = <<>> THEN <<>>
    ELSE LebForm(Head(args)) \o LebForms(Tail(args))

\* C30: encodeEvent of an event of a valid type with at least one argument
\* succeeds and writes: for a non-String event of type t with k arguments,
\* 1 <= k <= 3, the tag ((k-1) << 6) | t and the k values; with k >= 4 the
\* tag (3 << 6) | t, the number of bytes of the body, and the k values; for
\* a String the tag t, the identifier, the length of the data and the data.
C30_WireForm ==
    LET e == wire.evt
        t == e.Type
        k == Len(e.Args)
    IN  (wire.pc = "done" /\ TypeValid(t) /\ k >= 1) =>
           /\ wire.err = "nil"
           /\ (t # EvString /\ k <= 3) =>
                 wire.bytes = <<(k - 1) * 64 + t>> \o LebForms(e.Args)
           /\ (t # EvString /\ k >= 4) =>
                 wire.bytes = <<3 * 64 + t>>
                                 \o LebForm(U64FromInt(LebLens(e.Args)))
                                 \o LebForms(e.Args)
           /\ t = EvString =>
                 wire.bytes = <<t>> \o LebForm(e.Args[1])
                                 \o LebForm(U64FromInt(Len(e.Data)))
                                 \o e.Data

C30_Witness ==
    /\ wire.pc = "done" /\ wire.err = "nil"
    /\ wire.evt.Type = 13
    /\ Len(wire.evt.Args) = 4
    /\ wire.bytes[2] = 22

\* C31: encodeEvent of an event whose type is not valid (0, or Count and
\* above) or that has no argument returns an error and writes no byte to
\* the writer.
C31_RejectedWriteNothing ==
    (/\ wire.pc = "done"
     /\ \/ ~TypeValid(wire.evt.Type)
        \/ Len(wire.evt.Args) = 0)
       => /\ wire.err # "nil"
          /\ wire.bytes = <<>>

C31_Witness ==
    /\ wire.pc = "done"
    /\ wire.evt.Type = 6
    /\ wire.evt.Args = <<>>
    /\ wire.err = "EncodeNoArgs"
    /\ wire.bytes = <<>>

\* C32: a Visit of a Frequency event returns an error when the event does
\* not have exactly one argument or when that argument is 0, and returns
\* nil for one argument above 0.
C32_FrequencyVisit ==
    (/\ tlog.ret.op = "Visit"
     /\ tlog.ret.evt # NilEvent
     /\ tlog.ret.evt.Type = EvFrequency)
       => (tlog.ret.err = Nil
             <=> /\ Len(tlog.ret.evt.Args) = 1
                 /\ tlog.ret.evt.Args[1] # U64Zero)

\* C33: a Visit returns an error when the event is nil, when its type is
\* not valid, and when it has fewer arguments than the schema of its type
\* names, and then leaves both dictionaries as they were; a Visit of an
\* event of another type than String, Stack and Frequency that has at least
\* the arguments of its schema returns nil.
C33_SchemaArity ==
    [][(calls' = calls + 1 /\ tlog'.ret.op = "Visit") =>
          LET e   == tlog'.ret.evt
              bad == \/ e = NilEvent
                     \/ ~TypeValid(e.Type)
                     \/ Len(e.Args) < Len(schemasArgs[e.Type])
          IN  /\ bad => /\ tlog'.ret.err # Nil
                        /\ tr'.Strings = tr.Strings
                        /\ tr'.Stacks = tr.Stacks
              /\ (~bad /\ e.Type \notin {EvString, EvStack, EvFrequency})
                    => tlog'.ret.err = Nil]_vars

C33_Witness ==
    /\ tlog.ret.op = "Visit"
    /\ tlog.ret.evt = TEv(4, U64s(<<9, 8>>), <<>>)
    /\ tlog.ret.err.kind = "SchemaArgs"
    /\ DOMAIN tr.Strings # {}
    /\ DOMAIN tr.Stacks # {}

\* C34: the Off of an event that Decode returns is the number of bytes of
\* the session's source that precede its tag byte: 16 for the first event
\* of a session, also of a session begun by Reset, and more than the Off
\* of the event before it for every later one.
C34_EventOffsets ==
    [][(calls' = calls + 1 /\ ret'.op = "Decode" /\ ret'.err = Nil) =>
          LET before == IF dec.state.ver = 0 THEN 16
                        ELSE Len(session.src) - Len(dec.state.Reader)
          IN  /\ evt'.Off = before
              /\ session.decoded = 0 => evt'.Off = 16
              /\ session.decoded >= 1 => evt'.Off > evt.Off]_vars

C34_Witness ==
    /\ ret.op = "Decode" /\ ret.err = Nil
    /\ prev # 0
    /\ session.decoded = 2
    /\ evt.Off = 19

\* C35: Types of a valid version r holds exactly the valid types whose
\* Since is at most r, each once; Types of a version that is not valid
\* holds nothing.
C35_VersionTypes ==
    wire.pc = "types" =>
       LET S == {t \in 1..(EvCount - 1) : TypeSince(t) <= wire.ver}
       IN  IF VersionValid(wire.ver)
           THEN /\ {wire.types[i] : i \in DOMAIN wire.types} = S
                /\ Len(wire.types) = Cardinality(S)
           ELSE wire.types = <<>>

\* bit j (from 0) of the value a LEB128 byte sequence encodes: bit j % 7 of
\* its byte j \div 7
LebBit(b, j) ==
    IF (j \div 7) + 1 > Len(b) THEN 0
    ELSE (b[(j \div 7) + 1] \div Pow2(j % 7)) % 2

\* the 64 low bits of the value the first n bytes of b encode
LebValue(b, n) ==
    [l \in 1..4 |->
        LET S == {k \in 0..15 : LebBit(SubSeq(b, 1, n), 16 * (l - 1) + k) = 1}
            sum[T \in SUBSET S] ==
                IF T = {} THEN 0
                ELSE LET k == CHOOSE x \in T : TRUE
                     IN  Pow2(k) + sum[T \ {k}]
        IN  sum[S]]

\* C36: decodeUleb returns a value and no error only when one of the first
\* 10 bytes has a clear high bit and the value encoded up to that byte is
\* at most 2^64 - 1, and then returns that value; it returns 0 and the
\* overflow error when the first 10 bytes all have the high bit set or the
\* value does not fit 64 bits; it returns 0 and UnexpectedEOF when the
\* source ends before a byte with a clear high bit.
C36_UlebTotal ==
    leb.pc = "read" =>
       LET b    == leb.bytes
           T    == {i \in 1..Len(b) : b[i] < 128}
           n    == IF T = {} THEN 0 ELSE CHOOSE i \in T : \A j \in T : i <= j
           fits == n <= 9 \/ (n = 10 /\ b[10] <= 1)
       IN  IF n # 0 /\ n <= 10 /\ fits
           THEN leb.res.err = "nil" /\ leb.res.v = LebValue(b, n)
           ELSE IF Len(b) >= 10
           THEN leb.res.err = "UlebOverflow" /\ leb.res.v = U64Zero
           ELSE leb.res.err = "UnexpectedEOF" /\ leb.res.v = U64Zero

\* C37: when the first call of a session on a source of fewer than 16
\* bytes is a More that returns false, a Version or a Decode, Err is not
\* nil after it; the Decode returns UnexpectedEOF and the Version returns
\* an error.
C37_TruncatedSource ==
    (/\ Len(session.src) < 16
     /\ session.calls = 1
     /\ \/ ret.op = "More" /\ ~ret.more
        \/ ret.op \in {"Version", "Decode"})
       => /\ DecoderErr(dec) # Nil
          /\ ret.op = "Decode" => ret.err.kind = "UnexpectedEOF"
          /\ ret.op = "Version" => ret.err # Nil

\* C38: a Decode of the first-generation Decoder on a stream of revision 1
\* returns an event or an error; it never panics on an index or a slice
\* bound outside the arguments read.
C38_NormalizerInBounds ==
    (old.ret.op = "Decode" /\ old.d.state.ver = Version1) => ~old.ret.panic

\* C39: Get of a name returns the argument at the position of the name in
\* the schema of the event's type when the event has an argument there and
\* 0 otherwise, Lookup returns that argument and true, or 0 and false; and
\* neither reads past the end of the arguments.
C39_ArgAccess ==
    wire.pc \in {"Get", "Lookup"} =>
       LET e   == wire.evt
           a   == schemasArgs[e.Type % EvCount]
           P   == {i \in 1..Len(a) : a[i] = wire.name}
           has == P # {} /\ \A i \in P : i <= Len(e.Args)
       IN  /\ ~wire.panic
           /\ IF has
              THEN /\ \A i \in P : wire.v = e.Args[i]
                   /\ wire.pc = "Lookup" => wire.found
              ELSE wire.v = U64Zero /\ ~wire.found

\* C40: after Reset of a Trace made for a valid version both dictionaries
\* are empty, Count is 0 and the Version is the one the Trace had; and a
\* Visit after a Reset of an event of another type than String, Stack and
\* Frequency that has the arguments of its schema returns nil.
C40_TraceReset ==
    /\ tlog.ret.op = "Reset"
          => /\ tr.Strings = EmptyMap /\ tr.Stacks = EmptyMap
             /\ tr.Count = 0
             /\ tr.Version = prev
    /\ (/\ prev # 0
        /\ tlog.ret.op = "Visit"
        /\ tlog.ret.evt # NilEvent
        /\ TypeValid(tlog.ret.evt.Type)
        /\ tlog.ret.evt.Type \notin {EvString, EvStack, EvFrequency}
        /\ Len(tlog.ret.evt.Args) >= Len(schemasArgs[tlog.ret.evt.Type]))
          => tlog.ret.err = Nil

=============================================================================
